---- MODULE Spec2Model ----
(***************************************************************************)
(* A model of the QOR tree-walking interpreter                             *)
(* (src/src/interpreter/interpreter.py) driven by the AST node classes of  *)
(* src/src/parser/parser.py.                                               *)
(*                                                                         *)
(* The evaluator is modelled big-step: every visit_X method is an operator *)
(* visit_X(node, st) that returns the interpreter state after the method,  *)
(* the value it returns and the exception (if any) it raises.  One step of *)
(* the state machine is one call of Interpreter.interpret on one AST, on   *)
(* an interpreter that persists between calls (as QORRuntime keeps one).   *)
(***************************************************************************)
EXTENDS Integers, Sequences, FiniteSets, TLC

VARIABLES
    global_vars,   \* Interpreter.global_vars : name -> Value
    local_vars,    \* Interpreter.local_vars  : stack (sequence) of name -> Value
    functions,     \* Interpreter.functions   : name -> Function
    output,        \* Interpreter.output      : sequence of printed strings
    program,       \* the name, in Programs, of the last program interpreted
    ast,           \* its AST, as handed to interpret
    raised,        \* the exception that escaped the last interpret call, "ok" if none
    message,       \* the text of that exception
    trace,         \* history of the last interpret call: visits, pushes, pops, raises, writes
    runs,          \* number of interpret calls, or of files and lines submitted, so far
    source_code,   \* the source text handed to the lexer or to run_code
    token_list,    \* the tokens of the lexer, handed to the parser
    cursor,        \* Parser.pos when parse has ended
    stage,         \* how far the front end has got with code
    console,       \* the lines written to standard output by the shell and by print
    mode,          \* what main dispatched to: "none", "file" or "repl"
    status         \* the shell process: "running", "exit0" or "exit1"

vars ==
    <<global_vars, local_vars, functions, output, program, ast, raised, message, trace,
      runs, source_code, token_list, cursor, stage, console, mode, status>>

\* the variables of the front end and of the shell
front == <<source_code, token_list, cursor, stage>>
shell == <<console, mode, status>>

(***************************************************************************)
(* Bounds of the model.                                                    *)
(***************************************************************************)
\* interpret calls per behaviour
MaxRuns == 3
\* depth of the scope stack at which the host's recursion limit is hit
MaxDepth == 4
\* iterations of one while loop the model follows
MaxIter == 4
\* fractional digits printed for a float
MaxDigits == 4
\* length of the token sequences handed to the parser without a source text
MaxTokens == 4

(***************************************************************************)
(* Values.  A Number is an int or a float; a float is kept as the exact    *)
(* fraction n/d (d > 0, lowest terms).  A Boolean is the int 0 or 1 with   *)
(* its own tag, as in the host language.  Nil is the host's None.          *)
(***************************************************************************)
Int_(n) == [k |-> "int", n |-> n, d |-> 1]
Bool_(b) == [k |-> "bool", n |-> IF b THEN 1 ELSE 0, d |-> 1]
Nil == [k |-> "None", n |-> 0, d |-> 1]

Abs(n) == IF n < 0 THEN -n ELSE n

RECURSIVE Gcd(_, _)
Gcd(a, b) == IF b = 0 THEN a ELSE Gcd(b, a % b)

\* the float n/d in lowest terms with a positive denominator
Float_(n, d) ==
    LET s == IF d < 0 THEN -1 ELSE 1
        g == Gcd(Abs(n), Abs(d))
    IN  [k |-> "float", n |-> (s * n) \div g, d |-> (s * d) \div g]

IsNumber(v) == v.k \in {"int", "float", "bool"}
IsIntLike(v) == v.k \in {"int", "bool"}

\* the result type of host arithmetic on two numbers
Arith(a, b, n, d) ==
    IF IsIntLike(a) /\ IsIntLike(b) /\ d = 1 THEN Int_(n) ELSE Float_(n, d)

\* floor of the fraction n/d, d > 0
Floor(n, d) == n \div d

RECURSIVE IPow(_, _)
IPow(b, e) == IF e = 0 THEN 1 ELSE b * IPow(b, e - 1)

\* a list is the sequence of its elements; a dict is its keys in insertion order
\* with the value of each key at the same position in items
ListValue(items) == [k |-> "list", n |-> 0, d |-> 1, items |-> items]
DictValue(keys, items) == [k |-> "dict", n |-> 0, d |-> 1, items |-> items, keys |-> keys]
IsContainer(v) == v.k \in {"list", "dict"}

\* host truthiness: None, False, 0, 0.0 and an empty range, list or dict are falsy
Truthy(v) ==
    IF v.k \in {"range", "list", "dict"} THEN Len(v.items) > 0
    ELSE v.k # "None" /\ v.n # 0

\* host == on values
ValEq(a, b) ==
    CASE IsNumber(a) /\ IsNumber(b) -> a.n * b.d = b.n * a.d
      [] a.k = "range" /\ b.k = "range" -> a.items = b.items
      [] OTHER -> a.k = "None" /\ b.k = "None"

\* host < on numbers
ValLt(a, b) == a.n * b.d < b.n * a.d

RECURSIVE FracDigits(_, _, _)
FracDigits(r, d, k) ==
    IF r = 0 \/ k = 0 THEN ""
    ELSE ToString((r * 10) \div d) \o FracDigits((r * 10) % d, d, k - 1)

\* str(value) as visit_PrintNode applies it
Str(v) ==
    CASE v.k = "None" -> "None"
      [] v.k = "bool" -> IF v.n = 1 THEN "True" ELSE "False"
      [] v.k = "int" -> ToString(v.n)
      [] v.k = "float" ->
            LET a == Abs(v.n)
                whole == a \div v.d
                rest == a % v.d
            IN  (IF v.n < 0 THEN "-" ELSE "") \o ToString(whole) \o "."
                \o (IF rest = 0 THEN "0" ELSE FracDigits(rest, v.d, MaxDigits))

(***************************************************************************)
(* AST nodes (parser.py).  An optional child is a sequence of length <= 1. *)
(* The text of a literal is a sequence of one-character strings.           *)
(***************************************************************************)
DigitChars == <<"0", "1", "2", "3", "4", "5", "6", "7", "8", "9">>

DigitValue(c) == (CHOOSE i \in DOMAIN DigitChars : DigitChars[i] = c) - 1

\* the host's int(value) on a run of decimal digits
RECURSIVE int(_)
int(value) ==
    IF value = <<>> THEN 0
    ELSE 10 * int(SubSeq(value, 1, Len(value) - 1)) + DigitValue(value[Len(value)])

\* the host's float(value) on digits "." digits
float(value) ==
    LET dot == CHOOSE i \in DOMAIN value : value[i] = "."
        frac == SubSeq(value, dot + 1, Len(value))
    IN  Float_(int(SubSeq(value, 1, dot - 1) \o frac), IPow(10, Len(frac)))

\* NumberNode.__init__ converts the text of the literal
NumberNode(value) ==
    [type |-> "NumberNode",
     value |-> IF \E i \in DOMAIN value : value[i] = "." THEN float(value)
               ELSE Int_(int(value))]
\* StringNode.__init__ drops the quotes
StringNode(value) == [type |-> "StringNode", value |-> SubSeq(value, 2, Len(value) - 1)]
\* BooleanNode.__init__ compares the text with 'True'
BooleanNode(value) == [type |-> "BooleanNode", value |-> value = <<"T", "r", "u", "e">>]
VariableNode(name) == [type |-> "VariableNode", name |-> name]
BinaryOpNode(left, operator, right) ==
    [type |-> "BinaryOpNode", left |-> left, operator |-> operator, right |-> right]
UnaryOpNode(operator, operand) ==
    [type |-> "UnaryOpNode", operator |-> operator, operand |-> operand]
AssignmentNode(variable, value) ==
    [type |-> "AssignmentNode", variable |-> variable, value |-> value]
PrintNode(expression) == [type |-> "PrintNode", expression |-> expression]
FunctionDefNode(name, params, body) ==
    [type |-> "FunctionDefNode", name |-> name, params |-> params, body |-> body]
FunctionCallNode(name, args) ==
    [type |-> "FunctionCallNode", name |-> name, args |-> args]
ReturnNode(value) == [type |-> "ReturnNode", value |-> value]
IfNode(condition, then_body, elif_parts, else_body) ==
    [type |-> "IfNode", condition |-> condition, then_body |-> then_body,
     elif_parts |-> elif_parts, else_body |-> else_body]
ForNode(variable, iterable, body) ==
    [type |-> "ForNode", variable |-> variable, iterable |-> iterable, body |-> body]
WhileNode(condition, body) ==
    [type |-> "WhileNode", condition |-> condition, body |-> body]
\* RangeNode.__init__ fills in start 0 and step 1 when they are absent
RangeNode(args) ==
    IF Len(args) = 1
    THEN [type |-> "RangeNode", start |-> NumberNode(<<"0">>), stop |-> args[1],
          step |-> NumberNode(<<"1">>)]
    ELSE [type |-> "RangeNode", start |-> args[1], stop |-> args[2],
          step |-> IF Len(args) = 3 THEN args[3] ELSE NumberNode(<<"1">>)]
ListNode(elements) == [type |-> "ListNode", elements |-> elements]
DictNode(pairs) == [type |-> "DictNode", pairs |-> pairs]
IndexNode(obj, index) == [type |-> "IndexNode", obj |-> obj, index |-> index]
MethodCallNode(obj, method, args) ==
    [type |-> "MethodCallNode", obj |-> obj, method |-> method, args |-> args]
\* the host's None where a statement is expected: type(None).__name__ is 'NoneType'
None == [type |-> "NoneType"]

\* class Function
Function(name, params, body, closure) ==
    [name |-> name, params |-> params, body |-> body, closure |-> closure]

(***************************************************************************)
(* The interpreter state threaded through the visit methods, and what a    *)
(* method call yields: the state after it, the value it returns, and the   *)
(* exception it raises ("ok" when it returns normally).  RuntimeError is   *)
(* the interpreter's own exception class; ReturnValue is the carrier of a  *)
(* return statement; TypeError, ZeroDivisionError, ValueError and          *)
(* RecursionError are host exceptions.  "Unfollowed" marks an evaluation   *)
(* the model does not follow to its end (a loop past MaxIter, a node kind  *)
(* or builtin outside the model); interpret calls that end so are not      *)
(* steps of the state machine.                                             *)
(***************************************************************************)
State(g, l, f, o, t) ==
    [global_vars |-> g, local_vars |-> l, functions |-> f, output |-> o, trace |-> t]

Ok(st, val) == [st |-> st, val |-> val, sig |-> "ok", msg |-> ""]
Raise(st, sig, msg) == [st |-> st, val |-> Nil, sig |-> sig, msg |-> msg]
RaiseReturnValue(st, value) ==
    [st |-> st, val |-> value, sig |-> "ReturnValue", msg |-> ""]
\* a value-level outcome (val, sig, msg) placed in the state st
In(st, r) == [st |-> st, val |-> r.val, sig |-> r.sig, msg |-> r.msg]

\* d[k] = v on a host dict
Put(d, k, v) == [x \in DOMAIN d \cup {k} |-> IF x = k THEN v ELSE d[x]]
EmptyDict == [x \in {} |-> Nil]

\* one entry of the history: what happened, to what, at which scope-stack depth
Event(ev, name, depth) == [ev |-> ev, name |-> name, depth |-> depth]
Log(st, ev, name) ==
    [st EXCEPT !.trace = Append(@, Event(ev, name, Len(st.local_vars)))]

SetMax(S) == CHOOSE x \in S : \A y \in S : y <= x

\* get_variable consulting only the innermost local scope before the globals
get_variable_InnermostOnly(name, st) ==
    LET top == Len(st.local_vars)
    IN  IF top > 0 /\ name \in DOMAIN st.local_vars[top]
        THEN Ok(st, st.local_vars[top][name])
        ELSE IF name \in DOMAIN st.global_vars
             THEN Ok(st, st.global_vars[name])
             ELSE Raise(st, "RuntimeError", "Undefined variable: '" \o name \o "'")

\* get_variable yielding None for a name it does not find, as dict.get would
get_variable_Default(name, st) ==
    LET hits == {i \in 1..Len(st.local_vars) : name \in DOMAIN st.local_vars[i]}
    IN  IF hits # {}
        THEN Ok(st, st.local_vars[SetMax(hits)][name])
        ELSE IF name \in DOMAIN st.global_vars
             THEN Ok(st, st.global_vars[name])
             ELSE Ok(st, Nil)

\* Interpreter.get_variable
get_variable(name, st) ==
    LET hits == {i \in 1..Len(st.local_vars) : name \in DOMAIN st.local_vars[i]}
    IN  IF hits # {}
        THEN Ok(st, st.local_vars[SetMax(hits)][name])
        ELSE IF name \in DOMAIN st.global_vars
             THEN Ok(st, st.global_vars[name])
             ELSE Raise(st, "RuntimeError", "Undefined variable: '" \o name \o "'")

\* set_variable writing the global scope whatever the scope stack holds
set_variable_Global(name, value, st) ==
    [Log(st, "set", name) EXCEPT !.global_vars = Put(@, name, value)]

\* Interpreter.set_variable
set_variable(name, value, st) ==
    LET top == Len(st.local_vars)
        s1 == Log(st, "set", name)
    IN  IF top > 0
        THEN [s1 EXCEPT !.local_vars[top] = Put(@, name, value)]
        ELSE [s1 EXCEPT !.global_vars = Put(@, name, value)]

\* Interpreter.push_scope
push_scope(initial_vars, st) ==
    [st EXCEPT !.local_vars = Append(@, initial_vars)]

\* Interpreter.pop_scope
pop_scope(st) ==
    IF Len(st.local_vars) > 0
    THEN [st EXCEPT !.local_vars = SubSeq(@, 1, Len(@) - 1)]
    ELSE st

(***************************************************************************)
(* Operators of visit_BinaryOpNode and visit_UnaryOpNode on values.        *)
(***************************************************************************)
V(val) == [val |-> val, sig |-> "ok", msg |-> ""]
E(sig, msg) == [val |-> Nil, sig |-> sig, msg |-> msg]

\* a division that does not test its right operand
DivisionByZero_Untested(right) == FALSE

\* the test `right == 0` guarding the division
DivisionByZero(right) == ValEq(right, Int_(0))

\* host % on ints: the result takes the sign of the divisor
PyMod(a, b) == IF b > 0 THEN a % b ELSE -((-a) % (-b))

\* host ** for an integral exponent
Power(a, b) ==
    IF b.d # 1 THEN E("Unfollowed", "")
    ELSE IF b.n >= 0
         THEN V(Arith(a, b, IPow(a.n, b.n), IPow(a.d, b.n)))
         ELSE IF a.n = 0 THEN E("ZeroDivisionError", "")
              ELSE V(Float_(IPow(a.d, -b.n), IPow(a.n, -b.n)))

\* the operator chain of visit_BinaryOpNode applied to the two operand values
BinaryOp(operator, left, right) ==
    LET nums == IsNumber(left) /\ IsNumber(right)
    IN  CASE (IsContainer(left) \/ IsContainer(right)) /\ operator \notin {"and", "or"} ->
              E("Unfollowed", "")
          [] operator = "+" ->
              IF nums THEN V(Arith(left, right, left.n * right.d + right.n * left.d,
                                   left.d * right.d))
              ELSE E("TypeError", "")
          [] operator = "-" ->
              IF nums THEN V(Arith(left, right, left.n * right.d - right.n * left.d,
                                   left.d * right.d))
              ELSE E("TypeError", "")
          [] operator = "*" ->
              IF nums THEN V(Arith(left, right, left.n * right.n, left.d * right.d))
              ELSE E("TypeError", "")
          [] operator = "/" ->
              IF DivisionByZero(right) THEN E("RuntimeError", "Division by zero")
              ELSE IF ~nums THEN E("TypeError", "")
              ELSE IF right.n = 0 THEN E("ZeroDivisionError", "")
              ELSE V(Float_(left.n * right.d, left.d * right.n))
          [] operator = "%" ->
              IF ~nums THEN E("TypeError", "")
              ELSE IF right.n = 0 THEN E("ZeroDivisionError", "")
              ELSE IF IsIntLike(left) /\ IsIntLike(right)
                   THEN V(Int_(PyMod(left.n, right.n)))
                   ELSE LET q == Float_(left.n * right.d, left.d * right.n)
                            fl == Floor(q.n, q.d)
                        IN  V(Float_(left.n * right.d - fl * right.n * left.d,
                                     left.d * right.d))
          [] operator = "**" ->
              IF nums THEN Power(left, right) ELSE E("TypeError", "")
          [] operator = "==" -> V(Bool_(ValEq(left, right)))
          [] operator = "!=" -> V(Bool_(~ValEq(left, right)))
          [] operator = "<" ->
              IF nums THEN V(Bool_(ValLt(left, right))) ELSE E("TypeError", "")
          [] operator = ">" ->
              IF nums THEN V(Bool_(ValLt(right, left))) ELSE E("TypeError", "")
          [] operator = "<=" ->
              IF nums THEN V(Bool_(~ValLt(right, left))) ELSE E("TypeError", "")
          [] operator = ">=" ->
              IF nums THEN V(Bool_(~ValLt(left, right))) ELSE E("TypeError", "")
          [] operator = "and" -> V(IF Truthy(left) THEN right ELSE left)
          [] operator = "or" -> V(IF Truthy(left) THEN left ELSE right)
          [] OTHER -> E("RuntimeError", "Unknown operator: " \o operator)

\* the operator chain of visit_UnaryOpNode applied to the operand value
UnaryOp(operator, operand) ==
    CASE operator = "-" ->
          IF IsNumber(operand)
          THEN V(IF operand.k = "float" THEN Float_(-operand.n, operand.d)
                 ELSE Int_(-operand.n))
          ELSE E("TypeError", "")
      [] operator = "not" -> V(Bool_(~Truthy(operand)))
      [] OTHER -> E("RuntimeError", "Unknown unary operator: " \o operator)

(***************************************************************************)
(* Builtins (_register_builtins).  The name table is the code's; the model *)
(* follows the calls of abs, min and max on numbers.                       *)
(***************************************************************************)
Builtins ==
    {"abs", "round", "min", "max", "sqrt", "pow", "exp", "log", "log10",
     "sin", "cos", "tan", "asin", "acos", "atan", "floor", "ceil",
     "len", "str", "int", "float"}

\* a builtin table that a user function of the same name shadows
IsBuiltin_Shadowed(name, st) == name \in Builtins /\ name \notin DOMAIN st.functions

\* the test `node.name in self.builtins`, made before self.functions is consulted
IsBuiltin(name, st) == name \in Builtins

\* the text of the RuntimeError that wraps a host failure, up to the host's own text
BuiltinError(name) == "Error calling built-in function '" \o name \o "'"

\* self.builtins[node.name](*args); a host failure is any exception of the call
CallBuiltin(name, args) ==
    CASE \E i \in DOMAIN args : IsContainer(args[i]) -> E("Unfollowed", "")
      [] name = "abs" ->
          IF Len(args) # 1 \/ ~IsNumber(args[1]) THEN E("RuntimeError", BuiltinError(name))
          ELSE V(IF args[1].k = "float" THEN Float_(Abs(args[1].n), args[1].d)
                 ELSE Int_(Abs(args[1].n)))
      [] name \in {"min", "max"} ->
          IF Len(args) # 2 \/ ~IsNumber(args[1]) \/ ~IsNumber(args[2])
          THEN IF Len(args) <= 2 THEN E("RuntimeError", BuiltinError(name))
               ELSE E("Unfollowed", "")
          ELSE LET second == IF name = "min" THEN ValLt(args[2], args[1])
                             ELSE ValLt(args[1], args[2])
               IN  V(IF second THEN args[2] ELSE args[1])
      [] OTHER -> E("Unfollowed", "")

\* a call that does not catch the ReturnValue of its body
CallResult_Uncaught(body) ==
    IF body.sig = "ok" THEN Ok(body.st, Nil) ELSE body

\* the except clause and the fall-through of the call's try statement: what the
\* call returns (or lets propagate) given how the body ended
CallResult(body) ==
    CASE body.sig = "ReturnValue" -> Ok(body.st, body.val)
      [] body.sig = "ok" -> Ok(body.st, Nil)
      [] OTHER -> body

\* a call that pops its scope only when the body ended without an error
FinallyPop_NoFinally(body) ==
    IF body.sig \in {"ok", "ReturnValue"} THEN pop_scope(body.st) ELSE body.st

\* the finally clause of the call's try statement: the scope is popped however
\* the body ended
FinallyPop(body) == pop_scope(body.st)

\* a call that does not test the argument count
ArityMismatch_Untested(args, func) == FALSE

\* the argument-count test of visit_FunctionCallNode
ArityMismatch(args, func) == Len(args) # Len(func.params)

\* the text of the argument-count RuntimeError
ArityError(name, func, args) ==
    "Function '" \o name \o "' expects " \o ToString(Len(func.params))
    \o " arguments, got " \o ToString(Len(args))

\* parameters bound to the arguments in reverse order
ZipParams_Reversed(params, args) ==
    LET n == IF Len(params) < Len(args) THEN Len(params) ELSE Len(args)
        names == {params[i] : i \in 1..n}
    IN  [x \in names |-> args[n + 1 - SetMax({i \in 1..n : params[i] = x})]]

\* dict(zip(func.params, args))
ZipParams(params, args) ==
    LET n == IF Len(params) < Len(args) THEN Len(params) ELSE Len(args)
        names == {params[i] : i \in 1..n}
    IN  [x \in names |-> args[SetMax({i \in 1..n : params[i] = x})]]

\* range(start, stop, step) as the sequence of its elements
RECURSIVE RangeItems(_, _, _)
RangeItems(start, stop, step) ==
    IF (step > 0 /\ start >= stop) \/ (step < 0 /\ start <= stop) THEN <<>>
    ELSE <<Int_(start)>> \o RangeItems(start + step, stop, step)

\* int(x) on a number: truncation towards zero
ToInt(v) == IF v.n >= 0 THEN v.n \div v.d ELSE -((-v.n) \div v.d)

RangeValue(items) == [k |-> "range", n |-> 0, d |-> 1, items |-> items]

(***************************************************************************)
(* The visit methods.                                                      *)
(***************************************************************************)
RECURSIVE visit(_, _)
RECURSIVE VisitAll(_, _, _)
RECURSIVE VisitArgs(_, _, _, _)
RECURSIVE ElifLoop(_, _, _)
RECURSIVE ForLoop(_, _, _, _)
RECURSIVE WhileLoop(_, _, _)
RECURSIVE VisitPairs(_, _, _, _)

\* for stmt in body: self.visit(stmt)   (from the i-th statement on)
VisitAll(body, i, st) ==
    IF i > Len(body) THEN Ok(st, Nil)
    ELSE LET r == visit(body[i], st)
         IN  IF r.sig # "ok" THEN r ELSE VisitAll(body, i + 1, r.st)

\* [self.visit(arg) for arg in node.args]   (val is the list of values)
VisitArgs(args, i, st, acc) ==
    IF i > Len(args) THEN Ok(st, acc)
    ELSE LET r == visit(args[i], st)
         IN  IF r.sig # "ok" THEN r ELSE VisitArgs(args, i + 1, r.st, Append(acc, r.val))

visit_NumberNode(node, st) == Ok(st, node.value)

visit_BooleanNode(node, st) == Ok(st, Bool_(node.value))

visit_VariableNode(node, st) == get_variable(node.name, st)

visit_BinaryOpNode(node, st) ==
    LET left == visit(node.left, st)
    IN  IF left.sig # "ok" THEN left
        ELSE LET right == visit(node.right, left.st)
             IN  IF right.sig # "ok" THEN right
                 ELSE LET r == BinaryOp(node.operator, left.val, right.val)
                      IN  In(right.st, r)

visit_UnaryOpNode(node, st) ==
    LET operand == visit(node.operand, st)
    IN  IF operand.sig # "ok" THEN operand
        ELSE LET r == UnaryOp(node.operator, operand.val)
             IN  In(operand.st, r)

visit_AssignmentNode(node, st) ==
    LET value == visit(node.value, st)
    IN  IF value.sig # "ok" THEN value
        ELSE Ok(set_variable(node.variable, value.val, value.st), Nil)

visit_PrintNode(node, st) ==
    LET value == visit(node.expression, st)
    IN  IF value.sig # "ok" THEN value
        ELSE IF value.val.k \in {"range", "list", "dict"}
        THEN Raise(value.st, "Unfollowed", "")
        ELSE Ok([value.st EXCEPT !.output = Append(@, Str(value.val))], Nil)

visit_FunctionDefNode(node, st) ==
    LET func == Function(node.name, node.params, node.body, st.global_vars)
    IN  Ok([st EXCEPT !.functions = Put(@, node.name, func)], Nil)

visit_FunctionCallNode(node, st) ==
    IF IsBuiltin(node.name, st)
    THEN LET args == VisitArgs(node.args, 1, st, <<>>)
         IN  IF args.sig # "ok" THEN args
             ELSE LET r == CallBuiltin(node.name, args.val)
                  IN  In(args.st, r)
    ELSE IF node.name \notin DOMAIN st.functions
         THEN Raise(st, "RuntimeError", "Undefined function: '" \o node.name \o "'")
    ELSE LET func == st.functions[node.name]
             args == VisitArgs(node.args, 1, st, <<>>)
         IN  IF args.sig # "ok" THEN args
             ELSE IF ArityMismatch(args.val, func)
                  THEN Raise(args.st, "RuntimeError", ArityError(node.name, func, args.val))
             ELSE LET local_scope == ZipParams(func.params, args.val)
                      entered == push_scope(local_scope, Log(args.st, "call", node.name))
                      body == VisitAll(func.body, 1, entered)
                      left == FinallyPop(body)
                      how == CASE body.sig = "ReturnValue" -> "return"
                               [] body.sig = "ok" -> "end"
                               [] OTHER -> "error"
                  IN  CallResult([body EXCEPT !.st = Log(left, "exit", how)])

\* a return that is refused while no call frame is active
visit_ReturnNode_Checked(node, st) ==
    IF st.local_vars = <<>> THEN Raise(st, "RuntimeError", "'return' outside function")
    ELSE IF Len(node.value) > 0
    THEN LET value == visit(node.value[1], st)
         IN  IF value.sig # "ok" THEN value
             ELSE RaiseReturnValue(Log(value.st, "raise", "ReturnValue"), value.val)
    ELSE RaiseReturnValue(Log(st, "raise", "ReturnValue"), Nil)

visit_ReturnNode(node, st) ==
    IF Len(node.value) > 0
    THEN LET value == visit(node.value[1], st)
         IN  IF value.sig # "ok" THEN value
             ELSE RaiseReturnValue(Log(value.st, "raise", "ReturnValue"), value.val)
    ELSE RaiseReturnValue(Log(st, "raise", "ReturnValue"), Nil)

\* an elif chain whose else body also runs after an elif body has run
ElifLoop_FallThrough(node, i, st) ==
    IF i > Len(node.elif_parts)
    THEN VisitAll(node.else_body, 1, st)
    ELSE LET c == visit(node.elif_parts[i][1], st)
         IN  IF c.sig # "ok" THEN c
             ELSE IF Truthy(c.val)
                  THEN LET b == VisitAll(node.elif_parts[i][2], 1, c.st)
                       IN  IF b.sig # "ok" THEN b ELSE VisitAll(node.else_body, 1, b.st)
             ELSE ElifLoop(node, i + 1, c.st)

\* for elif_condition, elif_body in node.elif_parts, then the else body
ElifLoop(node, i, st) ==
    IF i > Len(node.elif_parts)
    THEN VisitAll(node.else_body, 1, st)
    ELSE LET c == visit(node.elif_parts[i][1], st)
         IN  IF c.sig # "ok" THEN c
             ELSE IF Truthy(c.val) THEN VisitAll(node.elif_parts[i][2], 1, c.st)
             ELSE ElifLoop(node, i + 1, c.st)

visit_IfNode(node, st) ==
    LET condition == visit(node.condition, st)
    IN  IF condition.sig # "ok" THEN condition
        ELSE IF Truthy(condition.val) THEN VisitAll(node.then_body, 1, condition.st)
        ELSE ElifLoop(node, 1, condition.st)

\* a loop that goes on from the value its body left in the loop variable
ForLoop_FromVariable(node, items, i, st) ==
    IF i > Len(items) THEN Ok(st, Nil)
    ELSE LET r == VisitAll(node.body, 1, set_variable(node.variable, items[i], st))
             now == get_variable(node.variable, r.st)
         IN  IF r.sig # "ok" THEN r
             ELSE IF now.sig = "ok" /\ ~ValEq(now.val, items[i]) THEN Ok(r.st, Nil)
             ELSE ForLoop(node, items, i + 1, r.st)

\* for value in iterable: set_variable, then the body   (from the i-th element on)
ForLoop(node, items, i, st) ==
    IF i > Len(items) THEN Ok(st, Nil)
    ELSE LET r == VisitAll(node.body, 1, set_variable(node.variable, items[i], st))
         IN  IF r.sig # "ok" THEN r ELSE ForLoop(node, items, i + 1, r.st)

visit_ForNode(node, st) ==
    LET iterable == visit(node.iterable, st)
    IN  IF iterable.sig # "ok" THEN iterable
        ELSE IF iterable.val.k \notin {"range", "list", "dict"}
        THEN Raise(iterable.st, "TypeError", "")
        ELSE ForLoop(node, IF iterable.val.k = "dict" THEN iterable.val.keys
                           ELSE iterable.val.items, 1, iterable.st)

\* while self.visit(node.condition): the body   (fuel iterations are followed)
WhileLoop(node, st, fuel) ==
    LET c == visit(node.condition, st)
    IN  IF c.sig # "ok" THEN c
        ELSE IF ~Truthy(c.val) THEN Ok(c.st, Nil)
        ELSE IF fuel = 0 THEN Raise(c.st, "Unfollowed", "")
        ELSE LET r == VisitAll(node.body, 1, c.st)
             IN  IF r.sig # "ok" THEN r ELSE WhileLoop(node, r.st, fuel - 1)

visit_WhileNode(node, st) == WhileLoop(node, st, MaxIter)

visit_RangeNode(node, st) ==
    LET start == visit(node.start, st)
    IN  IF start.sig # "ok" THEN start
        ELSE IF ~IsNumber(start.val) THEN Raise(start.st, "TypeError", "")
        ELSE LET stop == visit(node.stop, start.st)
             IN  IF stop.sig # "ok" THEN stop
                 ELSE IF ~IsNumber(stop.val) THEN Raise(stop.st, "TypeError", "")
                 ELSE LET step == visit(node.step, stop.st)
                      IN  IF step.sig # "ok" THEN step
                          ELSE IF ~IsNumber(step.val) THEN Raise(step.st, "TypeError", "")
                          ELSE IF ToInt(step.val) = 0 THEN Raise(step.st, "ValueError", "")
                          ELSE Ok(step.st, RangeValue(RangeItems(ToInt(start.val),
                                      ToInt(stop.val), ToInt(step.val))))

\* [self.visit(element) for element in node.elements]
visit_ListNode(node, st) ==
    LET elements == VisitArgs(node.elements, 1, st, <<>>)
    IN  IF elements.sig # "ok" THEN elements
        ELSE Ok(elements.st, ListValue(elements.val))

\* type(v).__name__
TypeName(v) == IF v.k = "None" THEN "NoneType" ELSE v.k

\* the position of a key in a dict's keys (equal numbers are the same key), 0 if
\* the dict does not hold it
KeyIndex(keys, key) ==
    IF \E i \in DOMAIN keys : ValEq(keys[i], key)
    THEN CHOOSE i \in DOMAIN keys : ValEq(keys[i], key)
    ELSE 0

\* result[key] = value; a list or a dict is not hashable
SetItem(result, key, value) ==
    IF IsContainer(key) THEN E("TypeError", "unhashable type: '" \o TypeName(key) \o "'")
    ELSE IF KeyIndex(result.keys, key) = 0
    THEN V(DictValue(Append(result.keys, key), Append(result.items, value)))
    ELSE V(DictValue(result.keys,
                     [result.items EXCEPT ![KeyIndex(result.keys, key)] = value]))

\* the loop of visit_DictNode from the i-th pair on
VisitPairs(pairs, i, st, result) ==
    IF i > Len(pairs) THEN Ok(st, result)
    ELSE LET key == visit(pairs[i][1], st)
         IN  IF key.sig # "ok" THEN key
             ELSE LET value == visit(pairs[i][2], key.st)
                  IN  IF value.sig # "ok" THEN value
                      ELSE LET r == SetItem(result, key.val, value.val)
                           IN  IF r.sig # "ok" THEN In(value.st, r)
                               ELSE VisitPairs(pairs, i + 1, value.st, r.val)

visit_DictNode(node, st) == VisitPairs(node.pairs, 1, st, DictValue(<<>>, <<>>))

\* a subscript that knows the positions 0..n-1 only
Subscript_NonNegative(obj, index) ==
    CASE obj.k \in {"list", "range"} ->
            IF ~IsIntLike(index)
            THEN E("TypeError", obj.k \o " indices must be integers or slices, not "
                                  \o TypeName(index))
            ELSE IF index.n \in 0..(Len(obj.items) - 1) THEN V(obj.items[index.n + 1])
            ELSE E("IndexError", (IF obj.k = "list" THEN "list index"
                                  ELSE "range object index") \o " out of range")
      [] obj.k = "dict" ->
            IF IsContainer(index)
            THEN E("TypeError", "unhashable type: '" \o TypeName(index) \o "'")
            ELSE IF KeyIndex(obj.keys, index) = 0 THEN E("KeyError", Str(index))
            ELSE V(obj.items[KeyIndex(obj.keys, index)])
      [] OTHER -> E("TypeError", "'" \o TypeName(obj) \o "' object is not subscriptable")

\* the host's obj[index]: a list or range takes the positions 0..n-1 and, counted
\* from the end, -n..-1; a dict takes a key it holds
Subscript(obj, index) ==
    CASE obj.k \in {"list", "range"} ->
            IF ~IsIntLike(index)
            THEN E("TypeError", obj.k \o " indices must be integers or slices, not "
                                  \o TypeName(index))
            ELSE IF index.n \in 0..(Len(obj.items) - 1) THEN V(obj.items[index.n + 1])
            ELSE IF -index.n \in 1..Len(obj.items)
            THEN V(obj.items[Len(obj.items) + index.n + 1])
            ELSE E("IndexError", (IF obj.k = "list" THEN "list index"
                                  ELSE "range object index") \o " out of range")
      [] obj.k = "dict" ->
            IF IsContainer(index)
            THEN E("TypeError", "unhashable type: '" \o TypeName(index) \o "'")
            ELSE IF KeyIndex(obj.keys, index) = 0 THEN E("KeyError", Str(index))
            ELSE V(obj.items[KeyIndex(obj.keys, index)])
      [] OTHER -> E("TypeError", "'" \o TypeName(obj) \o "' object is not subscriptable")

\* visit_IndexNode: a KeyError, IndexError or TypeError of the subscript is
\* raised again as the RuntimeError "Index error: ..."
visit_IndexNode(node, st) ==
    LET obj == visit(node.obj, st)
    IN  IF obj.sig # "ok" THEN obj
        ELSE LET index == visit(node.index, obj.st)
             IN  IF index.sig # "ok" THEN index
                 ELSE LET r == Subscript(obj.val, index.val)
                      IN  IF r.sig \in {"KeyError", "IndexError", "TypeError"}
                          THEN Raise(index.st, "RuntimeError", "Index error: " \o r.msg)
                          ELSE In(index.st, r)

\* Interpreter.generic_visit
generic_visit(node, st) == Raise(st, "RuntimeError", "No visit method for " \o node.type)

\* Interpreter.visit: dispatch on the node's class name.  The host's recursion
\* limit is met when the scope stack is deeper than MaxDepth.
visit(node, st) ==
    LET s1 == Log(st, "visit", node.type)
    IN  IF Len(st.local_vars) > MaxDepth THEN Raise(s1, "RecursionError", "")
        ELSE CASE node.type = "NumberNode" -> visit_NumberNode(node, s1)
               [] node.type = "BooleanNode" -> visit_BooleanNode(node, s1)
               [] node.type = "VariableNode" -> visit_VariableNode(node, s1)
               [] node.type = "BinaryOpNode" -> visit_BinaryOpNode(node, s1)
               [] node.type = "UnaryOpNode" -> visit_UnaryOpNode(node, s1)
               [] node.type = "AssignmentNode" -> visit_AssignmentNode(node, s1)
               [] node.type = "PrintNode" -> visit_PrintNode(node, s1)
               [] node.type = "FunctionDefNode" -> visit_FunctionDefNode(node, s1)
               [] node.type = "FunctionCallNode" -> visit_FunctionCallNode(node, s1)
               [] node.type = "ReturnNode" -> visit_ReturnNode(node, s1)
               [] node.type = "IfNode" -> visit_IfNode(node, s1)
               [] node.type = "ForNode" -> visit_ForNode(node, s1)
               [] node.type = "WhileNode" -> visit_WhileNode(node, s1)
               [] node.type = "RangeNode" -> visit_RangeNode(node, s1)
               [] node.type = "ListNode" -> visit_ListNode(node, s1)
               [] node.type = "DictNode" -> visit_DictNode(node, s1)
               [] node.type = "IndexNode" -> visit_IndexNode(node, s1)
               [] node.type \in {"StringNode", "MethodCallNode"} ->
                    Raise(s1, "Unfollowed", "")
               [] OTHER -> generic_visit(node, s1)

\* an interpret that goes on with the next statement after a failed one
RECURSIVE KeepGoing(_, _, _)
KeepGoing(nodes, i, r) ==
    IF i > Len(nodes) THEN r
    ELSE LET n == visit(nodes[i], r.st)
         IN  KeepGoing(nodes, i + 1, IF n.sig = "ok" /\ r.sig # "ok" THEN In(n.st, r) ELSE n)

interpret_KeepGoing(nodes, st) == KeepGoing(nodes, 1, Ok(st, Nil))

\* Interpreter.interpret
interpret(nodes, st) == VisitAll(nodes, 1, st)

(***************************************************************************)
(* The programs handed to interpret, each the statement list Parser.parse  *)
(* builds from the QOR text shown (a block body is one statement).  The    *)
(* first program assigns x and defines the functions:                      *)
(*   x = 1                                                                 *)
(*   function getx(): return x                                             *)
(*   function gety(): return y                                             *)
(*   function callee(): return a                                           *)
(*   function outer(a): return callee()                                    *)
(*   function mid(a): return outer(a + 1)                                  *)
(*   function setx(): x = 5                                                *)
(*   function nest(x): return setx() or x                                  *)
(*   function floop(x): for x in range(2): print(x)                        *)
(*   function add(a, b): return a + b                                      *)
(*   function sub(a, b): return a - b                                      *)
(*   function shout(k): print(k)                                           *)
(*   function noisy(k): return shout(k) or k                               *)
(*   function bare(): return                                               *)
(*   function find(n): for i in range(n): if i == 1: return i              *)
(*   function wrap(n): return find(n) + 10                                 *)
(*   function rec(n, z): if n == 0: return 6 / z else: return rec(n - 1, z)*)
(*   function setloc(): t = 5                                              *)
(*   function leak(): return setloc() or t                                 *)
(*   function spin(): while True: return 2                                 *)
(*   function again(): return again()                                      *)
(***************************************************************************)
\* the literal of a natural number, as the source text writes it
RECURSIVE Decimal(_)
Decimal(n) ==
    IF n < 10 THEN <<DigitChars[n + 1]>>
    ELSE Decimal(n \div 10) \o <<DigitChars[(n % 10) + 1]>>

Num(n) == NumberNode(Decimal(n))
Bool(b) == BooleanNode(IF b THEN <<"T", "r", "u", "e">> ELSE <<"F", "a", "l", "s", "e">>)
Var(name) == VariableNode(name)
Call(name, args) == FunctionCallNode(name, args)
Ret(e) == ReturnNode(<<e>>)
Def(name, params, body) == FunctionDefNode(name, params, body)

Prelude ==
    << AssignmentNode("x", Num(1)),
       Def("getx", <<>>, <<Ret(Var("x"))>>),
       Def("gety", <<>>, <<Ret(Var("y"))>>),
       Def("callee", <<>>, <<Ret(Var("a"))>>),
       Def("outer", <<"a">>, <<Ret(Call("callee", <<>>))>>),
       Def("mid", <<"a">>,
           <<Ret(Call("outer", <<BinaryOpNode(Var("a"), "+", Num(1))>>))>>),
       Def("setx", <<>>, <<AssignmentNode("x", Num(5))>>),
       Def("nest", <<"x">>, <<Ret(BinaryOpNode(Call("setx", <<>>), "or", Var("x")))>>),
       Def("floop", <<"x">>,
           <<ForNode("x", RangeNode(<<Num(2)>>), <<PrintNode(Var("x"))>>)>>),
       Def("add", <<"a", "b">>, <<Ret(BinaryOpNode(Var("a"), "+", Var("b")))>>),
       Def("sub", <<"a", "b">>, <<Ret(BinaryOpNode(Var("a"), "-", Var("b")))>>),
       Def("shout", <<"k">>, <<PrintNode(Var("k"))>>),
       Def("noisy", <<"k">>,
           <<Ret(BinaryOpNode(Call("shout", <<Var("k")>>), "or", Var("k")))>>),
       Def("bare", <<>>, <<ReturnNode(<<>>)>>),
       Def("find", <<"n">>,
           <<ForNode("i", RangeNode(<<Var("n")>>),
                     <<IfNode(BinaryOpNode(Var("i"), "==", Num(1)),
                              <<Ret(Var("i"))>>, <<>>, <<>>)>>)>>),
       Def("wrap", <<"n">>,
           <<Ret(BinaryOpNode(Call("find", <<Var("n")>>), "+", Num(10)))>>),
       Def("rec", <<"n", "z">>,
           <<IfNode(BinaryOpNode(Var("n"), "==", Num(0)),
                    <<Ret(BinaryOpNode(Num(6), "/", Var("z")))>>,
                    <<>>,
                    <<Ret(Call("rec", <<BinaryOpNode(Var("n"), "-", Num(1)),
                                        Var("z")>>))>>)>>),
       Def("setloc", <<>>, <<AssignmentNode("t", Num(5))>>),
       Def("leak", <<>>, <<Ret(BinaryOpNode(Call("setloc", <<>>), "or", Var("t")))>>),
       Def("spin", <<>>, <<WhileNode(Bool(TRUE), <<Ret(Num(2))>>)>>),
       Def("again", <<>>, <<Ret(Call("again", <<>>))>>) >>

DivZero == BinaryOpNode(Num(1), "/", Num(0))
Noisy(n) == Call("noisy", <<Num(n)>>)

\* the one-statement programs: x = 2, y = 3, print(getx()), ..., x = False and 1 / 0,
\* x = True or z, ..., add(noisy(7)), ..., z = x / False, ..., again()
SetX2 == <<AssignmentNode("x", Num(2))>>
SetY3 == <<AssignmentNode("y", Num(3))>>
PrintGetx == <<PrintNode(Call("getx", <<>>))>>
PrintGety == <<PrintNode(Call("gety", <<>>))>>
PrintOuter == <<PrintNode(Call("outer", <<Num(1)>>))>>
PrintMid == <<PrintNode(Call("mid", <<Num(1)>>))>>
AndDivZero == <<AssignmentNode("x", BinaryOpNode(Bool(FALSE), "and", DivZero))>>
OrUndefined == <<AssignmentNode("x", BinaryOpNode(Bool(TRUE), "or", Var("z")))>>
AndNoisy == <<AssignmentNode("x", BinaryOpNode(Bool(FALSE), "and", Noisy(7)))>>
AndEvaluated == <<AssignmentNode("x", BinaryOpNode(Bool(TRUE), "and", Noisy(7)))>>
PrintNest == <<PrintNode(Call("nest", <<Num(1)>>))>>
PrintFloop == <<PrintNode(Call("floop", <<Num(9)>>))>>
PrintAdd == <<PrintNode(Call("add", <<Num(2), Num(3)>>))>>
PrintSub == <<PrintNode(Call("sub", <<Noisy(7), Noisy(3)>>))>>
PrintBare == <<PrintNode(Call("bare", <<>>))>>
PrintSetx == <<PrintNode(Call("setx", <<>>))>>
AddOneArg == <<Call("add", <<Num(1)>>)>>
AddNoisyArg == <<Call("add", <<Noisy(7)>>)>>
AddThreeArgs == <<Call("add", <<Num(1), Num(2), Num(3)>>)>>
SetXDivZero == <<AssignmentNode("x", DivZero)>>
SetZDivZero == <<AssignmentNode("z", BinaryOpNode(Var("x"), "/", Bool(FALSE)))>>
SetXHalf == <<AssignmentNode("x", BinaryOpNode(Num(4), "/", Num(2)))>>
PrintZ == <<PrintNode(Var("z"))>>
PrintA == <<PrintNode(Var("a"))>>
PrintLeak == <<PrintNode(Call("leak", <<>>))>>
PrintFind == <<PrintNode(Call("find", <<Num(3)>>))>>
PrintWrap == <<PrintNode(Call("wrap", <<Num(3)>>))>>
PrintSpin == <<PrintNode(Call("spin", <<>>))>>
PrintRecZero == <<PrintNode(Call("rec", <<Num(2), Num(0)>>))>>
PrintRec == <<PrintNode(Call("rec", <<Num(2), Num(3)>>))>>
CallAgain == <<Call("again", <<>>)>>

\* the programs by name
Programs ==
    "Prelude" :> Prelude @@ "SetX2" :> SetX2 @@ "SetY3" :> SetY3 @@
    "PrintGetx" :> PrintGetx @@ "PrintGety" :> PrintGety @@ "PrintOuter" :> PrintOuter @@
    "PrintMid" :> PrintMid @@ "AndDivZero" :> AndDivZero @@ "OrUndefined" :> OrUndefined @@
    "AndNoisy" :> AndNoisy @@ "AndEvaluated" :> AndEvaluated @@ "PrintNest" :> PrintNest @@
    "PrintFloop" :> PrintFloop @@ "PrintAdd" :> PrintAdd @@ "PrintSub" :> PrintSub @@
    "PrintBare" :> PrintBare @@ "PrintSetx" :> PrintSetx @@ "AddOneArg" :> AddOneArg @@
    "AddNoisyArg" :> AddNoisyArg @@ "AddThreeArgs" :> AddThreeArgs @@ "SetXDivZero" :> SetXDivZero @@ "SetZDivZero" :> SetZDivZero @@
    "SetXHalf" :> SetXHalf @@ "PrintZ" :> PrintZ @@ "PrintA" :> PrintA @@
    "PrintLeak" :> PrintLeak @@ "PrintFind" :> PrintFind @@ "PrintWrap" :> PrintWrap @@
    "PrintSpin" :> PrintSpin @@ "PrintRecZero" :> PrintRecZero @@ "PrintRec" :> PrintRec @@
    "CallAgain" :> CallAgain

(***************************************************************************)
(* The state machine.                                                      *)
(***************************************************************************)
\* Interpreter.__init__ and _register_builtins: the constants pi and e (kept to
\* five decimals) are the only globals
Init ==
    /\ global_vars = [x \in {"pi", "e"} |->
                        IF x = "pi" THEN Float_(314159, 100000)
                        ELSE Float_(271828, 100000)]
    /\ local_vars = <<>>
    /\ functions = EmptyDict
    /\ output = <<>>
    /\ program = ""
    /\ ast = <<>>
    /\ raised = "ok"
    /\ message = ""
    /\ trace = <<>>
    /\ runs = 0
    /\ source_code = <<>>
    /\ token_list = <<>>
    /\ cursor = 0
    /\ stage = "idle"
    /\ console = <<>>
    /\ mode = "none"
    /\ status = "running"

\* the interpreter as the visit methods see it, with an empty history
Current == State(global_vars, local_vars, functions, output, <<>>)

\* one call interpreter.interpret(Programs[name])
Interpret(name) ==
    /\ runs < MaxRuns
    /\ LET r == interpret(Programs[name], Current)
       IN  /\ r.sig # "Unfollowed"
           /\ global_vars' = r.st.global_vars
           /\ local_vars' = r.st.local_vars
           /\ functions' = r.st.functions
           /\ output' = r.st.output
           /\ trace' = r.st.trace
           /\ raised' = r.sig
           /\ message' = r.msg
    /\ program' = name
    /\ ast' = Programs[name]
    /\ runs' = runs + 1
    /\ UNCHANGED <<front, shell>>

Next == \E name \in DOMAIN Programs : Interpret(name)

Spec == Init /\ [][Next]_vars

(***************************************************************************)
(* Control flow and builtins: a second set of programs for the same        *)
(* interpreter.  The first one defines                                     *)
(*   function shout(k): print(k)                                           *)
(*   function noisy(k): return shout(k) or k                               *)
(*   function boom(k): return noisy(k) / 0                                 *)
(*   function abs(v): return shout(99) or 7                                *)
(*   function loopf(n): for i in range(n): print(i)                        *)
(***************************************************************************)
MaxFlowRuns == 2

FlowPrelude ==
    << Def("shout", <<"k">>, <<PrintNode(Var("k"))>>),
       Def("noisy", <<"k">>,
           <<Ret(BinaryOpNode(Call("shout", <<Var("k")>>), "or", Var("k")))>>),
       Def("boom", <<"k">>,
           <<Ret(BinaryOpNode(Call("noisy", <<Var("k")>>), "/", Num(0)))>>),
       Def("abs", <<"v">>,
           <<Ret(BinaryOpNode(Call("shout", <<Num(99)>>), "or", Num(7)))>>),
       Def("loopf", <<"n">>,
           <<ForNode("i", RangeNode(<<Var("n")>>), <<PrintNode(Var("i"))>>)>>) >>

\* for i in range(n): print(i)
ForPrint(n) == <<ForNode("i", RangeNode(<<Num(n)>>), <<PrintNode(Var("i"))>>)>>
\* for i in range(3): i = i + 10
ForAssign ==
    <<ForNode("i", RangeNode(<<Num(3)>>),
              <<AssignmentNode("i", BinaryOpNode(Var("i"), "+", Num(10)))>>)>>
\* for i in range(noisy(2)): print(i)
ForNoisy == <<ForNode("i", RangeNode(<<Noisy(2)>>), <<PrintNode(Var("i"))>>)>>
\* i = 9
SetI9 == <<AssignmentNode("i", Num(9))>>
\* print(loopf(2))
PrintLoopf == <<PrintNode(Call("loopf", <<Num(2)>>))>>

\* if noisy(a): print(10) elif noisy(b): print(20) elif noisy(c): print(25) else: print(30)
IfChain(a, b, c) ==
    <<IfNode(Noisy(a), <<PrintNode(Num(10))>>,
             << <<Noisy(b), <<PrintNode(Num(20))>> >>,
                <<Noisy(c), <<PrintNode(Num(25))>> >> >>,
             <<PrintNode(Num(30))>>)>>
\* if noisy(0): print(10) elif noisy(b): print(20)
IfNoElse(b) ==
    <<IfNode(Noisy(0), <<PrintNode(Num(10))>>,
             << <<Noisy(b), <<PrintNode(Num(20))>> >> >>, <<>>)>>

\* print(1), x = 5, function keep(): return 1, y = 1 / 0, print(2), x = 6
Abort ==
    << PrintNode(Num(1)), AssignmentNode("x", Num(5)),
       Def("keep", <<>>, <<Ret(Num(1))>>),
       AssignmentNode("y", DivZero), PrintNode(Num(2)), AssignmentNode("x", Num(6)) >>
\* print(3), w = boom(1), print(4)
AbortInCall ==
    << PrintNode(Num(3)), AssignmentNode("w", Call("boom", <<Num(1)>>)),
       PrintNode(Num(4)) >>

\* print(abs(0 - 5)), abs(), abs(1, 2), print(abs(noisy(3)))
PrintAbs == <<PrintNode(Call("abs", <<BinaryOpNode(Num(0), "-", Num(5))>>))>>
AbsNoArg == <<Call("abs", <<>>)>>
AbsTwoArgs == <<Call("abs", <<Num(1), Num(2)>>)>>
PrintAbsNoisy == <<PrintNode(Call("abs", <<Noisy(3)>>))>>

FlowPrograms ==
    "FlowPrelude" :> FlowPrelude @@ "For0" :> ForPrint(0) @@ "For1" :> ForPrint(1) @@
    "For2" :> ForPrint(2) @@ "For3" :> ForPrint(3) @@ "ForAssign" :> ForAssign @@
    "ForNoisy" :> ForNoisy @@ "SetI9" :> SetI9 @@ "PrintLoopf" :> PrintLoopf @@
    "If100" :> IfChain(1, 0, 0) @@ "If010" :> IfChain(0, 1, 0) @@
    "If011" :> IfChain(0, 1, 1) @@ "If001" :> IfChain(0, 0, 1) @@
    "If000" :> IfChain(0, 0, 0) @@ "If111" :> IfChain(1, 1, 1) @@
    "IfNoElse0" :> IfNoElse(0) @@ "IfNoElse1" :> IfNoElse(1) @@
    "Abort" :> Abort @@ "AbortInCall" :> AbortInCall @@
    "PrintAbs" :> PrintAbs @@ "AbsNoArg" :> AbsNoArg @@ "AbsTwoArgs" :> AbsTwoArgs @@
    "PrintAbsNoisy" :> PrintAbsNoisy

\* one call interpreter.interpret(FlowPrograms[name])
InterpretFlow(name) ==
    /\ runs < MaxFlowRuns
    /\ LET r == interpret(FlowPrograms[name], Current)
       IN  /\ r.sig # "Unfollowed"
           /\ global_vars' = r.st.global_vars
           /\ local_vars' = r.st.local_vars
           /\ functions' = r.st.functions
           /\ output' = r.st.output
           /\ trace' = r.st.trace
           /\ raised' = r.sig
           /\ message' = r.msg
    /\ program' = name
    /\ ast' = FlowPrograms[name]
    /\ runs' = runs + 1
    /\ UNCHANGED <<front, shell>>

FlowNext == \E name \in DOMAIN FlowPrograms : InterpretFlow(name)

FlowSpec == Init /\ [][FlowNext]_vars

(***************************************************************************)
(* Containers and arithmetic on one interpreter: a list or a dict is bound *)
(* to a name, subscripted, and numbers are divided.  Each program is the   *)
(* statement list Parser.parse builds from the text shown; a dict literal  *)
(* is the tree parse_dict builds from its tokens.                          *)
(***************************************************************************)
\* interpret calls per behaviour
MaxDataRuns == 2
\* length of the lists and dicts built
MaxLen == 2
\* the subscripts tried are -MaxIndex .. MaxIndex
MaxIndex == 3
\* the operands of / and % are -MaxOperand .. MaxOperand
MaxOperand == 1

\* the literal of an integer: a negative one is a unary minus on its digits
IntLit(i) == IF i < 0 THEN UnaryOpNode("-", Num(-i)) ELSE Num(i)

\* xs = [10, 20, ...]   (n elements)
ListProgram(n) ==
    <<AssignmentNode("xs", ListNode([i \in 1..n |-> Num(10 * i)]))>>
\* d = {1: 10, 2: 20, ...}   (n pairs)
DictProgram(n) ==
    <<AssignmentNode("d", DictNode([i \in 1..n |-> <<Num(i), Num(10 * i)>>]))>>
\* y = xs[i]  or  y = d[i]
IndexProgram(name, i) == <<AssignmentNode("y", IndexNode(Var(name), IntLit(i)))>>
\* z = a / b  or  z = a % b
ArithmeticProgram(a, operator, b) ==
    <<AssignmentNode("z", BinaryOpNode(IntLit(a), operator, IntLit(b)))>>

DataPrograms ==
    \* y = xs[1.5]
    "FloatIndex" :> <<AssignmentNode("y", IndexNode(Var("xs"),
                                         NumberNode(<<"1", ".", "5">>)))>> @@
    \* y = xs[True]
    "BoolIndex" :> <<AssignmentNode("y", IndexNode(Var("xs"), Bool(TRUE)))>> @@
    \* y = pi[0]
    "NotSubscriptable" :> <<AssignmentNode("y", IndexNode(Var("pi"), Num(0)))>> @@
    \* y = d[xs]
    "UnhashableIndex" :> <<AssignmentNode("y", IndexNode(Var("d"), Var("xs")))>> @@
    \* y = xs[k]
    "UndefinedIndex" :> <<AssignmentNode("y", IndexNode(Var("xs"), Var("k")))>> @@
    \* y = d[1.0]
    "FloatKey" :> <<AssignmentNode("y", IndexNode(Var("d"),
                                       NumberNode(<<"1", ".", "0">>)))>> @@
    \* for v in xs: y = v
    "ForList" :> <<ForNode("v", Var("xs"), <<AssignmentNode("y", Var("v"))>>)>> @@
    \* z = 1.5 % 0
    "FloatModulo" :> <<AssignmentNode("z", BinaryOpNode(NumberNode(<<"1", ".", "5">>),
                                                        "%", Num(0)))>>

\* one call interpreter.interpret(nodes)
InterpretData(name, nodes) ==
    /\ runs < MaxDataRuns
    /\ LET r == interpret(nodes, Current)
       IN  /\ r.sig # "Unfollowed"
           /\ global_vars' = r.st.global_vars
           /\ local_vars' = r.st.local_vars
           /\ functions' = r.st.functions
           /\ output' = r.st.output
           /\ trace' = r.st.trace
           /\ raised' = r.sig
           /\ message' = r.msg
    /\ program' = name
    /\ ast' = nodes
    /\ runs' = runs + 1
    /\ UNCHANGED <<front, shell>>

MakeList == \E n \in 0..MaxLen : InterpretData("MakeList", ListProgram(n))
MakeDict == \E n \in 0..MaxLen : InterpretData("MakeDict", DictProgram(n))
Index ==
    \E name \in {"xs", "d"}, i \in (-MaxIndex)..MaxIndex :
        InterpretData("Index", IndexProgram(name, i))
Arithmetic ==
    \E a, b \in (-MaxOperand)..MaxOperand, operator \in {"/", "%"} :
        InterpretData("Arithmetic", ArithmeticProgram(a, operator, b))
OtherData == \E name \in DOMAIN DataPrograms : InterpretData(name, DataPrograms[name])

DataNext == MakeList \/ MakeDict \/ Index \/ Arithmetic \/ OtherData

DataSpec == Init /\ [][DataNext]_vars

(***************************************************************************)
(* The lexer (src/src/lexer/lexer.py).  A source text is a sequence of     *)
(* one-character strings; positions are the code's, counted from 0.  A     *)
(* pattern of TOKEN_TYPES is modelled by the length of its match at a      *)
(* position, 0 when it does not match there.                               *)
(***************************************************************************)
Lower ==
    {"a", "b", "c", "d", "e", "f", "g", "h", "i", "j", "k", "l", "m",
     "n", "o", "p", "q", "r", "s", "t", "u", "v", "w", "x", "y", "z"}

Upper ==
    {"A", "B", "C", "D", "E", "F", "G", "H", "I", "J", "K", "L", "M",
     "N", "O", "P", "Q", "R", "S", "T", "U", "V", "W", "X", "Y", "Z"}

\* \d
Digits == {"0", "1", "2", "3", "4", "5", "6", "7", "8", "9"}

\* [a-zA-Z_]
IdStart == Lower \cup Upper \cup {"_"}

\* \w
WordChars == IdStart \cup Digits

\* [ \t]
Blanks == {" ", "\t"}

\* self.code[self.pos], "" past the end
CharAt(code, pos) == IF pos < Len(code) THEN code[pos + 1] ELSE ""

\* the number of consecutive characters of a class from pos on: class*
RECURSIVE Run(_, _, _)
Run(code, pos, class) ==
    IF pos < Len(code) /\ code[pos + 1] \in class
    THEN 1 + Run(code, pos + 1, class)
    ELSE 0

\* the number of consecutive characters other than c from pos on: [^c]*
RECURSIVE RunUntil(_, _, _)
RunUntil(code, pos, c) ==
    IF pos < Len(code) /\ code[pos + 1] # c
    THEN 1 + RunUntil(code, pos + 1, c)
    ELSE 0

\* the match of a pattern that is a fixed word
Literal(code, pos, word) ==
    IF pos + Len(word) <= Len(code) /\ SubSeq(code, pos + 1, pos + Len(word)) = word
    THEN Len(word)
    ELSE 0

\* the token types in the order of the table
TOKEN_TYPES ==
    <<"COMMENT",
      "FUNCTION", "RETURN", "IF", "ELIF", "ELSE", "FOR", "WHILE", "IN", "RANGE",
      "AND", "OR", "NOT", "TRUE", "FALSE", "PRINT",
      "EQ", "NEQ", "LEQ", "GEQ", "LT", "GT",
      "STRING", "NUMBER",
      "PLUS", "MINUS", "MULTIPLY", "DIVIDE", "MODULO", "POWER",
      "ASSIGN", "LPAREN", "RPAREN", "LBRACKET", "RBRACKET", "COMMA", "COLON",
      "ID",
      "INDENT", "SKIP", "NEWLINE">>

\* the patterns of the table that are fixed words
Words ==
    "FUNCTION" :> <<"f", "u", "n", "c", "t", "i", "o", "n">> @@
    "RETURN" :> <<"r", "e", "t", "u", "r", "n">> @@
    "IF" :> <<"i", "f">> @@
    "ELIF" :> <<"e", "l", "i", "f">> @@
    "ELSE" :> <<"e", "l", "s", "e">> @@
    "FOR" :> <<"f", "o", "r">> @@
    "WHILE" :> <<"w", "h", "i", "l", "e">> @@
    "IN" :> <<"i", "n">> @@
    "RANGE" :> <<"r", "a", "n", "g", "e">> @@
    "AND" :> <<"a", "n", "d">> @@
    "OR" :> <<"o", "r">> @@
    "NOT" :> <<"n", "o", "t">> @@
    "TRUE" :> <<"T", "r", "u", "e">> @@
    "FALSE" :> <<"F", "a", "l", "s", "e">> @@
    "PRINT" :> <<"p", "r", "i", "n", "t">> @@
    "EQ" :> <<"=", "=">> @@
    "NEQ" :> <<"!", "=">> @@
    "LEQ" :> <<"<", "=">> @@
    "GEQ" :> <<">", "=">> @@
    "LT" :> <<"<">> @@
    "GT" :> <<">">> @@
    "PLUS" :> <<"+">> @@
    "MINUS" :> <<"-">> @@
    "MULTIPLY" :> <<"*">> @@
    "DIVIDE" :> <<"/">> @@
    "MODULO" :> <<"%">> @@
    "POWER" :> <<"*", "*">> @@
    "ASSIGN" :> <<"=">> @@
    "LPAREN" :> <<"(">> @@
    "RPAREN" :> <<")">> @@
    "LBRACKET" :> <<"[">> @@
    "RBRACKET" :> <<"]">> @@
    "COMMA" :> <<",">> @@
    "COLON" :> <<":">> @@
    "NEWLINE" :> <<"\n">>

\* the token types whose pattern is a keyword
Keywords ==
    {"FUNCTION", "RETURN", "IF", "ELIF", "ELSE", "FOR", "WHILE", "IN", "RANGE",
     "AND", "OR", "NOT", "TRUE", "FALSE", "PRINT"}

\* patterns whose keywords end at a word boundary
MatchLen_Anchored(token_type, code, pos) ==
    CASE token_type = "COMMENT" ->
            IF CharAt(code, pos) = "#" THEN 1 + RunUntil(code, pos + 1, "\n") ELSE 0
      [] token_type = "STRING" ->
            IF CharAt(code, pos) = "\""
            THEN LET n == RunUntil(code, pos + 1, "\"")
                 IN  IF CharAt(code, pos + 1 + n) = "\"" THEN n + 2 ELSE 0
            ELSE 0
      [] token_type = "NUMBER" ->
            LET n == Run(code, pos, Digits)
                f == IF CharAt(code, pos + n) = "." THEN Run(code, pos + n + 1, Digits) ELSE 0
            IN  IF n = 0 THEN 0 ELSE IF f > 0 THEN n + 1 + f ELSE n
      [] token_type = "ID" ->
            IF CharAt(code, pos) \in IdStart THEN 1 + Run(code, pos + 1, WordChars) ELSE 0
      [] token_type = "INDENT" ->
            IF pos = 0 THEN Run(code, pos, Blanks) ELSE 0
      [] token_type = "SKIP" -> Run(code, pos, Blanks)
      [] token_type \in Keywords ->
            IF CharAt(code, pos + Len(Words[token_type])) \in WordChars THEN 0
            ELSE Literal(code, pos, Words[token_type])
      [] OTHER -> Literal(code, pos, Words[token_type])

\* the length of regex.match(self.code, self.pos) for the pattern of a token type
MatchLen(token_type, code, pos) ==
    CASE token_type = "COMMENT" ->
            IF CharAt(code, pos) = "#" THEN 1 + RunUntil(code, pos + 1, "\n") ELSE 0
      [] token_type = "STRING" ->
            IF CharAt(code, pos) = "\""
            THEN LET n == RunUntil(code, pos + 1, "\"")
                 IN  IF CharAt(code, pos + 1 + n) = "\"" THEN n + 2 ELSE 0
            ELSE 0
      [] token_type = "NUMBER" ->
            LET n == Run(code, pos, Digits)
                f == IF CharAt(code, pos + n) = "." THEN Run(code, pos + n + 1, Digits) ELSE 0
            IN  IF n = 0 THEN 0 ELSE IF f > 0 THEN n + 1 + f ELSE n
      [] token_type = "ID" ->
            IF CharAt(code, pos) \in IdStart THEN 1 + Run(code, pos + 1, WordChars) ELSE 0
      [] token_type = "INDENT" ->
            IF pos = 0 THEN Run(code, pos, Blanks) ELSE 0
      [] token_type = "SKIP" -> Run(code, pos, Blanks)
      [] OTHER -> Literal(code, pos, Words[token_type])

\* the for loop of tokenize from the i-th pattern on: the first pattern that matches
RECURSIVE FirstMatch(_, _, _, _)
FirstMatch(i, code, pos, at_line_start) ==
    IF i > Len(TOKEN_TYPES)
    THEN [type |-> "", len |-> 0]
    ELSE LET token_type == TOKEN_TYPES[i]
             n == IF token_type = "INDENT" /\ ~at_line_start
                  THEN 0
                  ELSE MatchLen(token_type, code, pos)
         IN  IF n > 0
             THEN [type |-> token_type, len |-> n]
             ELSE FirstMatch(i + 1, code, pos, at_line_start)

Token(type, text) == [type |-> type, value |-> text]

\* a text as one string
RECURSIVE Join(_)
Join(chars) == IF chars = <<>> THEN "" ELSE Head(chars) \o Join(Tail(chars))

\* a tokenize loop that keeps the comments as tokens
RECURSIVE Scan_KeepComments(_, _, _, _, _)
Scan_KeepComments(code, pos, toks, line, at_line_start) ==
    IF pos >= Len(code)
    THEN [tokens |-> toks, sig |-> "ok", msg |-> ""]
    ELSE LET match == FirstMatch(1, code, pos, at_line_start)
             text == SubSeq(code, pos + 1, pos + match.len)
             kept == match.type \notin {"SKIP", "INDENT"}
         IN  IF match.len = 0
             THEN [tokens |-> <<>>, sig |-> "SyntaxError", msg |-> ""]
             ELSE Scan_KeepComments(code, pos + match.len,
                       IF kept THEN Append(toks, Token(match.type, text)) ELSE toks,
                       IF match.type = "NEWLINE" THEN line + 1 ELSE line,
                       IF match.type = "NEWLINE" THEN TRUE
                       ELSE IF kept THEN FALSE ELSE at_line_start)

\* the while loop of tokenize from position pos on
RECURSIVE Scan(_, _, _, _, _)
Scan(code, pos, toks, line, at_line_start) ==
    IF pos >= Len(code)
    THEN [tokens |-> toks, sig |-> "ok", msg |-> ""]
    ELSE LET match == FirstMatch(1, code, pos, at_line_start)
             text == SubSeq(code, pos + 1, pos + match.len)
             kept == match.type \notin {"SKIP", "COMMENT", "INDENT"}
         IN  IF match.len = 0
             THEN [tokens |-> <<>>, sig |-> "SyntaxError",
                   msg |-> "Unrecognized character at line " \o ToString(line)
                             \o ", position " \o ToString(pos) \o ": \""
                             \o code[pos + 1] \o "\""]
             ELSE Scan(code, pos + match.len,
                       IF kept THEN Append(toks, Token(match.type, text)) ELSE toks,
                       IF match.type = "NEWLINE" THEN line + 1 ELSE line,
                       IF match.type = "NEWLINE" THEN TRUE
                       ELSE IF kept THEN FALSE ELSE at_line_start)

\* Lexer(code).tokenize(): the tokens, or the SyntaxError raised
tokenize(code) == Scan(code, 0, <<>>, 1, TRUE)

(***************************************************************************)
(* The parser (src/src/parser/parser.py).  The parser state p is its read  *)
(* cursor pos, the SyntaxError it has raised (sig "ok" if none), and what  *)
(* the last method returned: node for a node or a list of nodes, value for *)
(* the text expect returns.  A method applied to a state that has raised   *)
(* leaves it as it is: the exception propagates to the caller of parse.    *)
(***************************************************************************)
\* Parser.__init__
Parser == [pos |-> 0, sig |-> "ok", msg |-> "", node |-> None, value |-> ""]

\* the host's None as current_token
NoToken == Token("", <<>>)

\* self.current_token, as __init__ and advance keep it
current_token(tokens, p) == IF p.pos < Len(tokens) THEN tokens[p.pos + 1] ELSE NoToken

\* Parser.peek with offset 1
peek(tokens, p) == IF p.pos + 1 < Len(tokens) THEN tokens[p.pos + 2] ELSE NoToken

\* Parser.advance
advance(p) == [p EXCEPT !.pos = @ + 1]

\* raise SyntaxError(msg)
Throw(p, msg) == [p EXCEPT !.sig = "SyntaxError", !.msg = msg]

\* return node
Return(p, node) == [p EXCEPT !.node = node]

\* Parser.expect
expect(tokens, p, token_type) ==
    LET tok == current_token(tokens, p)
    IN  IF p.sig # "ok" THEN p
        ELSE IF tok.type = ""
        THEN Throw(p, "Expected " \o token_type \o ", got end of input")
        ELSE IF tok.type # token_type
        THEN Throw(p, "Expected " \o token_type \o ", got " \o tok.type \o " ('"
                        \o Join(tok.value) \o "')")
        ELSE [advance(p) EXCEPT !.value = Join(tok.value)]

\* Parser.skip_newlines
RECURSIVE skip_newlines(_, _)
skip_newlines(tokens, p) ==
    IF p.sig = "ok" /\ current_token(tokens, p).type = "NEWLINE"
    THEN skip_newlines(tokens, advance(p))
    ELSE p

\* the host's repr of a text without quotes: control characters are escaped
RECURSIVE Escaped(_)
Escaped(chars) ==
    IF chars = <<>> THEN ""
    ELSE (CASE Head(chars) = "\n" -> "\\n"
            [] Head(chars) = "\t" -> "\\t"
            [] Head(chars) = "\\" -> "\\\\"
            [] OTHER -> Head(chars)) \o Escaped(Tail(chars))

\* the host's repr of a token, as parse_factor formats it into its message
TokenRepr(tok) == "('" \o tok.type \o "', '" \o Escaped(tok.value) \o "')"

op_map ==
    "EQ" :> "==" @@ "NEQ" :> "!=" @@ "LT" :> "<" @@ "GT" :> ">" @@ "LEQ" :> "<=" @@
    "GEQ" :> ">="

RECURSIVE parse_statement(_, _)
RECURSIVE parse_expression(_, _)
RECURSIVE parse_logical_not(_, _)
RECURSIVE parse_factor(_, _)
RECURSIVE AppendArg(_, _, _)
RECURSIVE parse_args(_, _)
RECURSIVE RangeClose(_, _)
RECURSIVE parse_range(_, _)
RECURSIVE AppendElement(_, _, _)
RECURSIVE ListOpen(_, _)
RECURSIVE ListClose(_, _)
RECURSIVE parse_list(_, _)
RECURSIVE PairValue(_, _)
RECURSIVE parse_pair(_, _)
RECURSIVE AppendPair(_, _, _)
RECURSIVE DictOpen(_, _)
RECURSIVE DictClose(_, _)
RECURSIVE parse_dict(_, _)
RECURSIVE MethodOf(_, _, _, _)
RECURSIVE MethodCall(_, _, _)
RECURSIVE IndexOf(_, _, _)
RECURSIVE CallOf(_, _, _)
RECURSIVE parse_name(_, _, _)
RECURSIVE Parenthesized(_, _)
RECURSIVE parse_power(_, _)
RECURSIVE parse_term(_, _)
RECURSIVE parse_arithmetic(_, _)
RECURSIVE parse_comparison(_, _)
RECURSIVE parse_logical_and(_, _)
RECURSIVE parse_logical_or(_, _)
RECURSIVE PrintOf(_, _)
RECURSIVE parse_print(_, _)
RECURSIVE parse_assignment(_, _)
RECURSIVE parse_body(_, _)
RECURSIVE parse_function_def(_, _)
RECURSIVE parse_return(_, _)
RECURSIVE AppendElif(_, _, _, _)
RECURSIVE ElifBody(_, _, _)
RECURSIVE IfElse(_, _, _, _)
RECURSIVE IfElifs(_, _, _)
RECURSIVE IfThen(_, _)
RECURSIVE parse_if(_, _)
RECURSIVE ForBody(_, _, _)
RECURSIVE parse_for(_, _)
RECURSIVE WhileBody(_, _)
RECURSIVE parse_while(_, _)
RECURSIVE AppendStatement(_, _, _, _, _)
RECURSIVE Statement(_, _, _, _)
RECURSIVE PowerLoop(_, _, _, _)
RECURSIVE PowerOperand(_, _, _, _)
RECURSIVE TermLoop(_, _, _, _)
RECURSIVE TermOperand(_, _, _, _)
RECURSIVE ArithmeticLoop(_, _, _, _)
RECURSIVE ArithmeticOperand(_, _, _, _)
RECURSIVE ComparisonLoop(_, _, _, _)
RECURSIVE ComparisonOperand(_, _, _, _)
RECURSIVE AndLoop(_, _, _, _)
RECURSIVE AndOperand(_, _, _, _)
RECURSIVE OrLoop(_, _, _, _)
RECURSIVE OrOperand(_, _, _, _)

\* return node, unless the state has raised
Returning(p, node) == IF p.sig # "ok" THEN p ELSE Return(p, node)

\* args.append(self.parse_expression()), then the same for each further COMMA
RECURSIVE MoreArgs(_, _, _)
AppendArg(tokens, e, args) == MoreArgs(tokens, e, Append(args, e.node))

MoreArgs(tokens, p, args) ==
    IF p.sig # "ok" THEN p
    ELSE IF current_token(tokens, p).type = "COMMA"
    THEN AppendArg(tokens, parse_expression(tokens, advance(p)), args)
    ELSE Return(p, args)

\* the argument list of a call, up to its RPAREN
parse_args(tokens, p) ==
    IF p.sig # "ok" THEN p
    ELSE IF current_token(tokens, p).type \notin {"", "RPAREN"}
    THEN AppendArg(tokens, parse_expression(tokens, p), <<>>)
    ELSE Return(p, <<>>)

\* the end of parse_range: one to three arguments make a RangeNode
RangeOf(c, args) ==
    IF c.sig # "ok" THEN c
    ELSE IF Len(args) <= 3 THEN Return(c, RangeNode(args))
    ELSE Throw(c, "range() takes 1-3 arguments")

RangeClose(tokens, args) == RangeOf(expect(tokens, args, "RPAREN"), args.node)

\* Parser.parse_range
parse_range(tokens, p) ==
    RangeClose(tokens,
               AppendArg(tokens,
                         parse_expression(tokens,
                                          expect(tokens, expect(tokens, p, "RANGE"),
                                                 "LPAREN")),
                         <<>>))

\* the elements of a list literal; a trailing comma ends them
RECURSIVE MoreElements(_, _, _)
AppendElement(tokens, e, elements) == MoreElements(tokens, e, Append(elements, e.node))

MoreElements(tokens, p, elements) ==
    IF p.sig # "ok" THEN p
    ELSE IF current_token(tokens, p).type = "COMMA"
    THEN IF current_token(tokens, advance(p)).type = "RBRACKET"
         THEN Return(advance(p), elements)
         ELSE AppendElement(tokens, parse_expression(tokens, advance(p)), elements)
    ELSE Return(p, elements)

ListOpen(tokens, a) ==
    IF a.sig = "ok" /\ current_token(tokens, a).type \notin {"", "RBRACKET"}
    THEN AppendElement(tokens, parse_expression(tokens, a), <<>>)
    ELSE Return(a, <<>>)

ListClose(tokens, elements) ==
    Returning(expect(tokens, elements, "RBRACKET"), ListNode(elements.node))

\* Parser.parse_list
parse_list(tokens, p) == ListClose(tokens, ListOpen(tokens, expect(tokens, p, "LBRACKET")))

\* key = parse_expression(); expect COLON; value = parse_expression()
PairOf(key, value) == Returning(value, <<key.node, value.node>>)

PairValue(tokens, key) == PairOf(key, parse_expression(tokens, expect(tokens, key, "COLON")))

parse_pair(tokens, p) == PairValue(tokens, parse_expression(tokens, p))

\* the pairs of a dict literal; a trailing comma ends them
RECURSIVE MorePairs(_, _, _)
AppendPair(tokens, e, pairs) == MorePairs(tokens, e, Append(pairs, e.node))

MorePairs(tokens, p, pairs) ==
    IF p.sig # "ok" THEN p
    ELSE IF current_token(tokens, p).type = "COMMA"
    THEN IF current_token(tokens, advance(p)).type = "RBRACE"
         THEN Return(advance(p), pairs)
         ELSE AppendPair(tokens, parse_pair(tokens, advance(p)), pairs)
    ELSE Return(p, pairs)

DictOpen(tokens, a) ==
    IF a.sig = "ok" /\ current_token(tokens, a).type \notin {"", "RBRACE"}
    THEN AppendPair(tokens, parse_pair(tokens, a), <<>>)
    ELSE Return(a, <<>>)

DictClose(tokens, pairs) == Returning(expect(tokens, pairs, "RBRACE"), DictNode(pairs.node))

\* Parser.parse_dict
parse_dict(tokens, p) == DictClose(tokens, DictOpen(tokens, expect(tokens, p, "LBRACE")))

\* the ID branch of parse_factor, after name has been read: a method call, ...
MethodOf(tokens, name, method_name, args) ==
    Returning(expect(tokens, args, "RPAREN"),
              MethodCallNode(VariableNode(name), method_name, args.node))

MethodCall(tokens, name, m) ==
    MethodOf(tokens, name, m.value, parse_args(tokens, expect(tokens, m, "LPAREN")))

\* ... indexing, ...
IndexOf(tokens, name, index) ==
    Returning(expect(tokens, index, "RBRACKET"), IndexNode(VariableNode(name), index.node))

\* ... a function call, ...
CallOf(tokens, name, args) ==
    Returning(expect(tokens, args, "RPAREN"), FunctionCallNode(name, args.node))

\* ... or a variable
parse_name(tokens, name, p) ==
    CASE current_token(tokens, p).type = "DOT" ->
            MethodCall(tokens, name, expect(tokens, advance(p), "ID"))
      [] current_token(tokens, p).type = "LBRACKET" ->
            IndexOf(tokens, name, parse_expression(tokens, advance(p)))
      [] current_token(tokens, p).type = "LPAREN" ->
            CallOf(tokens, name, parse_args(tokens, advance(p)))
      [] OTHER -> Return(p, VariableNode(name))

\* the LPAREN branch of parse_factor, after the expression
Parenthesized(tokens, node) == Returning(expect(tokens, node, "RPAREN"), node.node)

\* return UnaryOpNode(operator, operand)
Unary(operator, operand) == Returning(operand, UnaryOpNode(operator, operand.node))

\* Parser.parse_factor
parse_factor(tokens, p) ==
    LET token == current_token(tokens, p)
    IN  IF p.sig # "ok" THEN p
        ELSE CASE token.type = "" -> Throw(p, "Unexpected end of input")
               [] token.type = "NUMBER" -> Return(advance(p), NumberNode(token.value))
               [] token.type = "STRING" -> Return(advance(p), StringNode(token.value))
               [] token.type \in {"TRUE", "FALSE"} ->
                     Return(advance(p), BooleanNode(token.value))
               [] token.type = "RANGE" -> parse_range(tokens, p)
               [] token.type = "LBRACKET" -> parse_list(tokens, p)
               [] token.type = "LBRACE" -> parse_dict(tokens, p)
               [] token.type = "ID" -> parse_name(tokens, Join(token.value), advance(p))
               [] token.type = "LPAREN" ->
                     Parenthesized(tokens, parse_expression(tokens, advance(p)))
               [] token.type = "MINUS" -> Unary("-", parse_factor(tokens, advance(p)))
               [] OTHER ->
                     Throw(p, "Unexpected token in expression: " \o TokenRepr(token))

\* the node after one more operand of a chain of binary operators: the first
\* operand is the node, a further one makes BinaryOpNode(node, operator, right)
Operand(node, operator, right) ==
    IF operator = "" THEN right ELSE BinaryOpNode(node, operator, right)

\* parse_power: node = parse_factor(), and for each POWER token right = parse_factor()
PowerLoop(tokens, node, operator, right) ==
    IF right.sig # "ok" THEN right
    ELSE IF current_token(tokens, right).type = "POWER"
    THEN PowerOperand(tokens, advance(right), Operand(node, operator, right.node),
              "**")
    ELSE Return(right, Operand(node, operator, right.node))

\* a parse_power whose right operands are parsed at the multiplicative level
PowerOperand_Term(tokens, p, node, operator) ==
    PowerLoop(tokens, node, operator,
              IF operator = "" THEN parse_factor(tokens, p) ELSE parse_term(tokens, p))

PowerOperand(tokens, p, node, operator) ==
    PowerLoop(tokens, node, operator, parse_factor(tokens, p))

\* Parser.parse_power
parse_power(tokens, p) == PowerOperand(tokens, p, None, "")

\* parse_term: the same loop over MULTIPLY, DIVIDE and MODULO with parse_power operands
TermLoop(tokens, node, operator, right) ==
    IF right.sig # "ok" THEN right
    ELSE IF current_token(tokens, right).type \in {"MULTIPLY", "DIVIDE", "MODULO"}
    THEN TermOperand(tokens, advance(right), Operand(node, operator, right.node),
             Join(current_token(tokens, right).value))
    ELSE Return(right, Operand(node, operator, right.node))

TermOperand(tokens, p, node, operator) ==
    TermLoop(tokens, node, operator, parse_power(tokens, p))

\* Parser.parse_term
parse_term(tokens, p) == TermOperand(tokens, p, None, "")

\* parse_arithmetic: the same loop over PLUS and MINUS with parse_term operands
ArithmeticLoop(tokens, node, operator, right) ==
    IF right.sig # "ok" THEN right
    ELSE IF current_token(tokens, right).type \in {"PLUS", "MINUS"}
    THEN ArithmeticOperand(tokens, advance(right), Operand(node, operator, right.node),
                   Join(current_token(tokens, right).value))
    ELSE Return(right, Operand(node, operator, right.node))

\* a parse_arithmetic whose operands skip the multiplicative level
ArithmeticOperand_NoTerm(tokens, p, node, operator) ==
    ArithmeticLoop(tokens, node, operator, parse_power(tokens, p))

ArithmeticOperand(tokens, p, node, operator) ==
    ArithmeticLoop(tokens, node, operator, parse_term(tokens, p))

\* Parser.parse_arithmetic
parse_arithmetic(tokens, p) == ArithmeticOperand(tokens, p, None, "")

\* parse_comparison: an if, not a loop: at most one comparison operator
ComparisonLoop(tokens, node, operator, right) ==
    IF right.sig # "ok" THEN right
    ELSE IF operator = "" /\ current_token(tokens, right).type \in DOMAIN op_map
    THEN ComparisonOperand(tokens, advance(right), Operand(node, operator, right.node),
                   op_map[current_token(tokens, right).type])
    ELSE Return(right, Operand(node, operator, right.node))

ComparisonOperand(tokens, p, node, operator) ==
    ComparisonLoop(tokens, node, operator, parse_arithmetic(tokens, p))

\* Parser.parse_comparison
parse_comparison(tokens, p) == ComparisonOperand(tokens, p, None, "")

\* Parser.parse_logical_not
parse_logical_not(tokens, p) ==
    IF p.sig = "ok" /\ current_token(tokens, p).type = "NOT"
    THEN Unary("not", parse_logical_not(tokens, advance(p)))
    ELSE parse_comparison(tokens, p)

\* parse_logical_and: the loop over AND with parse_logical_not operands
AndLoop(tokens, node, operator, right) ==
    IF right.sig # "ok" THEN right
    ELSE IF current_token(tokens, right).type = "AND"
    THEN AndOperand(tokens, advance(right), Operand(node, operator, right.node),
            "and")
    ELSE Return(right, Operand(node, operator, right.node))

AndOperand(tokens, p, node, operator) ==
    AndLoop(tokens, node, operator, parse_logical_not(tokens, p))

\* Parser.parse_logical_and
parse_logical_and(tokens, p) == AndOperand(tokens, p, None, "")

\* parse_logical_or: the loop over OR with parse_logical_and operands
OrLoop(tokens, node, operator, right) ==
    IF right.sig # "ok" THEN right
    ELSE IF current_token(tokens, right).type = "OR"
    THEN OrOperand(tokens, advance(right), Operand(node, operator, right.node),
           "or")
    ELSE Return(right, Operand(node, operator, right.node))

OrOperand(tokens, p, node, operator) ==
    OrLoop(tokens, node, operator, parse_logical_and(tokens, p))

\* Parser.parse_logical_or
parse_logical_or(tokens, p) == OrOperand(tokens, p, None, "")

\* Parser.parse_expression
parse_expression(tokens, p) == parse_logical_or(tokens, p)

\* the end of parse_print, after the expression
PrintOf(tokens, expr) == Returning(expect(tokens, expr, "RPAREN"), PrintNode(expr.node))

\* Parser.parse_print
parse_print(tokens, p) ==
    PrintOf(tokens,
            parse_expression(tokens, expect(tokens, expect(tokens, p, "PRINT"), "LPAREN")))

\* return AssignmentNode(var_name, expr)
AssignmentOf(var_name, expr) == Returning(expr, AssignmentNode(var_name, expr.node))

\* Parser.parse_assignment
parse_assignment(tokens, p) ==
    LET var_name == expect(tokens, p, "ID")
    IN  AssignmentOf(var_name.value,
                     parse_expression(tokens, expect(tokens, var_name, "ASSIGN")))

\* params.append(self.expect('ID')) for each further COMMA
RECURSIVE MoreParams(_, _, _)
MoreParams(tokens, p, params) ==
    IF p.sig # "ok" THEN p
    ELSE IF current_token(tokens, p).type = "COMMA"
    THEN LET id == expect(tokens, advance(p), "ID")
         IN  MoreParams(tokens, id, Append(params, id.value))
    ELSE Return(p, params)

\* [self.parse_statement()]
BodyOf(stmt) == Returning(stmt, <<stmt.node>>)

\* a block that takes every statement up to the next elif, else or the end of
\* the input
parse_body_Block(tokens, p) ==
    LET RECURSIVE More(_, _)
        More(r, body) ==
            IF r.sig # "ok" THEN r
            ELSE IF current_token(tokens, skip_newlines(tokens, r)).type
                        \in {"", "ELIF", "ELSE"}
            THEN Return(r, body)
            ELSE More(parse_statement(tokens, skip_newlines(tokens, r)),
                      Append(body, parse_statement(tokens, skip_newlines(tokens, r)).node))
    IN  More(skip_newlines(tokens, expect(tokens, p, "COLON")), <<>>)

\* the one-statement block after a header: expect COLON, skip newlines, one statement
parse_body(tokens, p) ==
    BodyOf(parse_statement(tokens, skip_newlines(tokens, expect(tokens, p, "COLON"))))

\* return FunctionDefNode(name, params, body)
FunctionDefOf(name, params, body) ==
    Returning(body, FunctionDefNode(name, params, body.node))

\* Parser.parse_function_def
parse_function_def(tokens, p) ==
    LET name == expect(tokens, expect(tokens, p, "FUNCTION"), "ID")
        a == expect(tokens, name, "LPAREN")
        id == expect(tokens, a, "ID")
        params == IF a.sig = "ok" /\ current_token(tokens, a).type \notin {"", "RPAREN"}
                  THEN MoreParams(tokens, id, <<id.value>>)
                  ELSE Return(a, <<>>)
    IN  FunctionDefOf(name.value, params.node,
                      parse_body(tokens, expect(tokens, params, "RPAREN")))

\* return ReturnNode(value)
ReturnOf(value) == Returning(value, ReturnNode(<<value.node>>))

\* Parser.parse_return
parse_return(tokens, p) ==
    LET a == expect(tokens, p, "RETURN")
    IN  IF a.sig # "ok" THEN a
        ELSE IF current_token(tokens, a).type \notin {"", "NEWLINE"}
        THEN ReturnOf(parse_expression(tokens, a))
        ELSE Return(a, ReturnNode(<<>>))

\* the while loop of parse_if over the elif parts
RECURSIVE ElifParts(_, _, _)
AppendElif(tokens, elif_condition, elif_body, elif_parts) ==
    ElifParts(tokens, skip_newlines(tokens, elif_body),
              Append(elif_parts, <<elif_condition, elif_body.node>>))

ElifBody(tokens, elif_condition, elif_parts) ==
    AppendElif(tokens, elif_condition.node, parse_body(tokens, elif_condition), elif_parts)

ElifParts(tokens, p, elif_parts) ==
    IF p.sig # "ok" THEN p
    ELSE IF current_token(tokens, p).type = "ELIF"
    THEN ElifBody(tokens, parse_expression(tokens, advance(p)), elif_parts)
    ELSE Return(p, elif_parts)

\* return IfNode(condition, then_body, elif_parts, else_body)
IfOf(condition, then_body, elif_parts, else_body) ==
    Returning(else_body, IfNode(condition, then_body, elif_parts, else_body.node))

\* the else part of parse_if
IfElse(tokens, condition, then_body, elif_parts) ==
    IF elif_parts.sig = "ok" /\ current_token(tokens, elif_parts).type = "ELSE"
    THEN IfOf(condition, then_body, elif_parts.node,
              parse_body(tokens, advance(elif_parts)))
    ELSE Returning(elif_parts, IfNode(condition, then_body, elif_parts.node, <<>>))

IfElifs(tokens, condition, then_body) ==
    IfElse(tokens, condition, then_body.node,
           ElifParts(tokens, skip_newlines(tokens, then_body), <<>>))

IfThen(tokens, condition) == IfElifs(tokens, condition.node, parse_body(tokens, condition))

\* Parser.parse_if
parse_if(tokens, p) == IfThen(tokens, parse_expression(tokens, expect(tokens, p, "IF")))

\* return ForNode(var_name, iterable, body)
ForOf(var_name, iterable, body) == Returning(body, ForNode(var_name, iterable, body.node))

ForBody(tokens, var_name, iterable) ==
    ForOf(var_name, iterable.node, parse_body(tokens, iterable))

\* Parser.parse_for
parse_for(tokens, p) ==
    LET var_name == expect(tokens, expect(tokens, p, "FOR"), "ID")
    IN  ForBody(tokens, var_name.value,
                parse_expression(tokens, expect(tokens, var_name, "IN")))

\* return WhileNode(condition, body)
WhileOf(condition, body) == Returning(body, WhileNode(condition, body.node))

WhileBody(tokens, condition) == WhileOf(condition.node, parse_body(tokens, condition))

\* Parser.parse_while
parse_while(tokens, p) ==
    WhileBody(tokens, parse_expression(tokens, expect(tokens, p, "WHILE")))

\* Parser.parse_statement: None when no token is left
parse_statement(tokens, p) ==
    LET token_type == current_token(tokens, p).type
    IN  IF p.sig # "ok" THEN p
        ELSE CASE token_type = "" -> Return(p, None)
               [] token_type = "PRINT" -> parse_print(tokens, p)
               [] token_type = "FUNCTION" -> parse_function_def(tokens, p)
               [] token_type = "RETURN" -> parse_return(tokens, p)
               [] token_type = "IF" -> parse_if(tokens, p)
               [] token_type = "FOR" -> parse_for(tokens, p)
               [] token_type = "WHILE" -> parse_while(tokens, p)
               [] token_type = "ID" /\ peek(tokens, p).type = "ASSIGN" ->
                     parse_assignment(tokens, p)
               [] OTHER -> parse_expression(tokens, p)

\* a variant of the loop condition that stops after the first statement
MoreInput_FirstStatement(tokens, p) == p.pos = 0 /\ current_token(tokens, p).type # ""

\* self.current_token is not None
MoreInput(tokens, p) == current_token(tokens, p).type # ""

\* the while loop of parse.  An iteration that neither raises nor moves the
\* cursor would repeat for ever: it ends the loop with sig "Stalled".
RECURSIVE ParseLoop(_, _, _)
AppendStatement(tokens, p, stmt, r, statements) ==
    IF r.sig = "ok" /\ r.pos = p.pos THEN [r EXCEPT !.sig = "Stalled"]
    ELSE ParseLoop(tokens, r,
                   IF stmt.node.type = "NoneType" THEN statements
                   ELSE Append(statements, stmt.node))

Statement(tokens, p, stmt, statements) ==
    AppendStatement(tokens, p, stmt, skip_newlines(tokens, stmt), statements)

ParseLoop(tokens, p, statements) ==
    IF p.sig # "ok" THEN p
    ELSE IF ~MoreInput(tokens, p) THEN Return(p, statements)
    ELSE IF current_token(tokens, skip_newlines(tokens, p)).type = ""
    THEN Return(skip_newlines(tokens, p), statements)
    ELSE Statement(tokens, p, parse_statement(tokens, skip_newlines(tokens, p)), statements)

\* Parser(tokens).parse(): the statement list and the cursor, or the SyntaxError raised
parse(tokens) == ParseLoop(tokens, Parser, <<>>)

(***************************************************************************)
(* The front end on its own: a source text is tokenized and its tokens are *)
(* parsed, or a token sequence is handed to the parser directly.           *)
(***************************************************************************)
SourceTexts ==
    \* index
    "Index" :> <<"i", "n", "d", "e", "x">> @@
    \* order = 1
    "Order" :> <<"o", "r", "d", "e", "r", " ", "=", " ", "1">> @@
    \* format
    "Format" :> <<"f", "o", "r", "m", "a", "t">> @@
    \* x = int(3.5)
    "IntCall" :> <<"x", " ", "=", " ", "i", "n", "t", "(", "3", ".", "5", ")">> @@
    \* x = 10 + 5
    "V1Test" :> <<"x", " ", "=", " ", "1", "0", " ", "+", " ", "5">> @@
    \* print("a b") # say "hi"\n
    "Spaced" :> <<"p", "r", "i", "n", "t", "(", "\"", "a", " ", "b", "\"", ")", " ", "#",
        " ", "s", "a", "y", " ", "\"", "h", "i", "\"", "\n">> @@
    \* s = "a\nb"\nt = 1
    "TwoLineString" :> <<"s", " ", "=", " ", "\"", "a", "\n", "b", "\"", "\n", "t", " ",
        "=", " ", "1">> @@
    \* s = "a#b" # c
    "HashInString" :> <<"s", " ", "=", " ", "\"", "a", "#", "b", "\"", " ", "#", " ",
        "c">> @@
    \* 2 ** 3
    "Power" :> <<"2", " ", "*", "*", " ", "3">> @@
    \* result = 2 ** 3 + 10 % 3
    "Test5" :> <<"r", "e", "s", "u", "l", "t", " ", "=", " ", "2", " ", "*", "*", " ",
        "3", " ", "+", " ", "1", "0", " ", "%", " ", "3">> @@
    \* 2 * 3
    "Times" :> <<"2", " ", "*", " ", "3">> @@
    \* person = {"name": "Ali", "age": 25}
    "DictLiteral" :> <<"p", "e", "r", "s", "o", "n", " ", "=", " ", "{", "\"", "n", "a",
        "m", "e", "\"", ":", " ", "\"", "A", "l", "i", "\"", ",", " ", "\"", "a", "g",
        "e", "\"", ":", " ", "2", "5", "}">> @@
    \* person["name"]
    "DictIndex" :> <<"p", "e", "r", "s", "o", "n", "[", "\"", "n", "a", "m", "e", "\"",
        "]">> @@
    \* obj.name(1)
    "MethodCall" :> <<"o", "b", "j", ".", "n", "a", "m", "e", "(", "1", ")">> @@
    \* function f():
    "FunctionHeader" :> <<"f", "u", "n", "c", "t", "i", "o", "n", " ", "f", "(", ")",
        ":">> @@
    \* if x:
    "IfHeader" :> <<"i", "f", " ", "x", ":">> @@
    \* if x: y\nelif z:
    "ElifHeader" :> <<"i", "f", " ", "x", ":", " ", "y", "\n", "e", "l", "i", "f", " ",
        "z", ":">> @@
    \* if x: y\nelse:
    "ElseHeader" :> <<"i", "f", " ", "x", ":", " ", "y", "\n", "e", "l", "s", "e", ":">> @@
    \* for i in range(3):
    "ForHeader" :> <<"f", "o", "r", " ", "i", " ", "i", "n", " ", "r", "a", "n", "g",
        "e", "(", "3", ")", ":">> @@
    \* while x:\n
    "WhileHeader" :> <<"w", "h", "i", "l", "e", " ", "x", ":", "\n">> @@
    \* x = 
    "MissingOperand" :> <<"x", " ", "=", " ">> @@
    \* print(1
    "MissingParen" :> <<"p", "r", "i", "n", "t", "(", "1">> @@
    \* range(1, 2, 3, 4)
    "RangeFour" :> <<"r", "a", "n", "g", "e", "(", "1", ",", " ", "2", ",", " ", "3",
        ",", " ", "4", ")">> @@
    \*   x = 7 # c\n\ty = 2.5\n
    "Assignments" :> <<" ", " ", "x", " ", "=", " ", "7", " ", "#", " ", "c", "\n", "\t",
        "y", " ", "=", " ", "2", ".", "5", "\n">> @@
    \* function f(a, b): return a + b\nprint(f(1, 2))
    "Sum" :> <<"f", "u", "n", "c", "t", "i", "o", "n", " ", "f", "(", "a", ",", " ", "b",
        ")", ":", " ", "r", "e", "t", "u", "r", "n", " ", "a", " ", "+", " ", "b", "\n",
        "p", "r", "i", "n", "t", "(", "f", "(", "1", ",", " ", "2", ")", ")">> @@
    \* if x > 1: print(1)\nelif y: print(2)\nelse: print(3)
    "Chain" :> <<"i", "f", " ", "x", " ", ">", " ", "1", ":", " ", "p", "r", "i", "n",
        "t", "(", "1", ")", "\n", "e", "l", "i", "f", " ", "y", ":", " ", "p", "r", "i",
        "n", "t", "(", "2", ")", "\n", "e", "l", "s", "e", ":", " ", "p", "r", "i", "n",
        "t", "(", "3", ")">> @@
    \* for i in range(3): print(i)
    "Loop" :> <<"f", "o", "r", " ", "i", " ", "i", "n", " ", "r", "a", "n", "g", "e",
        "(", "3", ")", ":", " ", "p", "r", "i", "n", "t", "(", "i", ")">> @@
    \* print(1)\nx = )
    "SyntaxErrorLast" :> <<"p", "r", "i", "n", "t", "(", "1", ")", "\n", "x", " ", "=",
        " ", ")">> @@
    \* print(1)\nx = {
    "LexErrorLast" :> <<"p", "r", "i", "n", "t", "(", "1", ")", "\n", "x", " ", "=", " ",
        "{">>

\* token sequences that no source text tokenizes to: the parser knows LBRACE,
\* RBRACE and DOT
TokenLists ==
    \* a ** b * c
    "PowerTimes" :>
        <<Token("ID", <<"a">>), Token("POWER", <<"*", "*">>), Token("ID", <<"b">>),
          Token("MULTIPLY", <<"*">>), Token("ID", <<"c">>)>> @@
    \* a ** b ** c
    "PowerPower" :>
        <<Token("ID", <<"a">>), Token("POWER", <<"*", "*">>), Token("ID", <<"b">>),
          Token("POWER", <<"*", "*">>), Token("ID", <<"c">>)>> @@
    \* person = { "name" : "Ali" , "age" : 25 }
    "DictTokens" :>
        <<Token("ID", <<"p", "e", "r", "s", "o", "n">>), Token("ASSIGN", <<"=">>),
          Token("LBRACE", <<"{">>), Token("STRING", <<"\"", "n", "a", "m", "e", "\"">>),
          Token("COLON", <<":">>), Token("STRING", <<"\"", "A", "l", "i", "\"">>),
          Token("COMMA", <<",">>), Token("STRING", <<"\"", "a", "g", "e", "\"">>),
          Token("COLON", <<":">>), Token("NUMBER", <<"2", "5">>),
          Token("RBRACE", <<"}">>)>> @@
    \* obj . name ( 1 )
    "MethodTokens" :>
        <<Token("ID", <<"o", "b", "j">>), Token("DOT", <<".">>),
          Token("ID", <<"n", "a", "m", "e">>), Token("LPAREN", <<"(">>),
          Token("NUMBER", <<"1">>), Token("RPAREN", <<")">>)>>

\* the tokens of the enumerated sequences
Alphabet ==
    {Token("ID", <<"x">>), Token("NUMBER", <<"1">>), Token("LPAREN", <<"(">>),
     Token("RPAREN", <<")">>), Token("COLON", <<":">>), Token("WHILE", Words["WHILE"]),
     Token("PLUS", <<"+">>), Token("NEWLINE", <<"\n">>), Token("IF", Words["IF"]),
     Token("ASSIGN", <<"=">>)}

\* every token sequence over the alphabet up to the bound
TokenSeqs == UNION {[1..n -> Alphabet] : n \in 0..MaxTokens}

FrontInit ==
    /\ global_vars = [x \in {"pi", "e"} |->
                        IF x = "pi" THEN Float_(314159, 100000)
                        ELSE Float_(271828, 100000)]
    /\ local_vars = <<>>
    /\ functions = EmptyDict
    /\ output = <<>>
    /\ ast = <<>>
    /\ raised = "ok"
    /\ message = ""
    /\ trace = <<>>
    /\ runs = 0
    /\ cursor = 0
    /\ console = <<>>
    /\ mode = "none"
    /\ status = "running"
    /\ \/ \E name \in DOMAIN SourceTexts :
            /\ program = name
            /\ source_code = SourceTexts[name]
            /\ token_list = <<>>
            /\ stage = "source"
       \/ \E name \in DOMAIN TokenLists :
            /\ program = name
            /\ source_code = <<>>
            /\ token_list = TokenLists[name]
            /\ stage = "tokens"
       \/ /\ program = ""
          /\ source_code = <<>>
          /\ token_list \in TokenSeqs
          /\ stage = "tokens"

\* tokens = Lexer(code).tokenize()
Tokenize ==
    /\ stage = "source"
    /\ LET lexed == tokenize(source_code)
       IN  /\ token_list' = lexed.tokens
           /\ raised' = lexed.sig
           /\ message' = lexed.msg
           /\ stage' = IF lexed.sig = "ok" THEN "tokens" ELSE "tokenize failed"
    /\ UNCHANGED <<global_vars, local_vars, functions, output, program, ast, trace, runs,
                   source_code, cursor, shell>>

\* ast = Parser(tokens).parse()
Parse ==
    /\ stage = "tokens"
    /\ LET parsed == parse(token_list)
       IN  /\ cursor' = parsed.pos
           /\ raised' = parsed.sig
           /\ message' = parsed.msg
           /\ ast' = IF parsed.sig = "ok" THEN parsed.node ELSE <<>>
           /\ stage' = IF parsed.sig = "ok" THEN "parsed" ELSE "parse failed"
    /\ UNCHANGED <<global_vars, local_vars, functions, output, program, trace, runs,
                   source_code, token_list, shell>>

FrontNext == Tokenize \/ Parse

FrontSpec == FrontInit /\ [][FrontNext]_vars

(***************************************************************************)
(* The shell (src/qor.py): one QORRuntime with one Interpreter, run on a   *)
(* file or as a REPL.  console holds the text of each print call.  runs    *)
(* counts the lines read by the REPL and the files run.                    *)
(***************************************************************************)
\* lines read by the REPL in one behaviour
MaxLines == 3

ShellTexts ==
    \* print(1)\nx = 2\nfunction f():\n    y = 1\n    return 5\nprint(3)\n
    "ReturnSecondLine" :> <<"p", "r", "i", "n", "t", "(", "1", ")", "\n", "x", " ", "=",
        " ", "2", "\n", "f", "u", "n", "c", "t", "i", "o", "n", " ", "f", "(", ")", ":",
        "\n", " ", " ", " ", " ", "y", " ", "=", " ", "1", "\n", " ", " ", " ", " ", "r",
        "e", "t", "u", "r", "n", " ", "5", "\n", "p", "r", "i", "n", "t", "(", "3", ")",
        "\n">> @@
    \* if False:\n    print(1)\n    print(2)\n
    "IfTwo" :> <<"i", "f", " ", "F", "a", "l", "s", "e", ":", "\n", " ", " ", " ", " ",
        "p", "r", "i", "n", "t", "(", "1", ")", "\n", " ", " ", " ", " ", "p", "r", "i",
        "n", "t", "(", "2", ")", "\n">> @@
    \* if True:\n    print(1)\nelif True:\n    print(3)\n    print(4)\n
    "ElifTwo" :> <<"i", "f", " ", "T", "r", "u", "e", ":", "\n", " ", " ", " ", " ", "p",
        "r", "i", "n", "t", "(", "1", ")", "\n", "e", "l", "i", "f", " ", "T", "r", "u",
        "e", ":", "\n", " ", " ", " ", " ", "p", "r", "i", "n", "t", "(", "3", ")", "\n",
        " ", " ", " ", " ", "p", "r", "i", "n", "t", "(", "4", ")", "\n">> @@
    \* if True:\n    print(1)\nelse:\n    print(5)\n    print(6)\n
    "ElseTwo" :> <<"i", "f", " ", "T", "r", "u", "e", ":", "\n", " ", " ", " ", " ", "p",
        "r", "i", "n", "t", "(", "1", ")", "\n", "e", "l", "s", "e", ":", "\n", " ", " ",
        " ", " ", "p", "r", "i", "n", "t", "(", "5", ")", "\n", " ", " ", " ", " ", "p",
        "r", "i", "n", "t", "(", "6", ")", "\n">> @@
    \* for i in range(2):\n    print(i)\n    print(9)\n
    "ForTwo" :> <<"f", "o", "r", " ", "i", " ", "i", "n", " ", "r", "a", "n", "g", "e",
        "(", "2", ")", ":", "\n", " ", " ", " ", " ", "p", "r", "i", "n", "t", "(", "i",
        ")", "\n", " ", " ", " ", " ", "p", "r", "i", "n", "t", "(", "9", ")", "\n">> @@
    \* while False:\n    print(1)\n    print(2)\n
    "WhileTwo" :> <<"w", "h", "i", "l", "e", " ", "F", "a", "l", "s", "e", ":", "\n", " ",
        " ", " ", " ", "p", "r", "i", "n", "t", "(", "1", ")", "\n", " ", " ", " ", " ",
        "p", "r", "i", "n", "t", "(", "2", ")", "\n">> @@
    \* function f():\n    print(1)\n    print(2)\n
    "DefTwo" :> <<"f", "u", "n", "c", "t", "i", "o", "n", " ", "f", "(", ")", ":", "\n",
        " ", " ", " ", " ", "p", "r", "i", "n", "t", "(", "1", ")", "\n", " ", " ", " ",
        " ", "p", "r", "i", "n", "t", "(", "2", ")", "\n">> @@
    \* result = 10 + 5 * 2\nd = 9 - 4 - 3\n
    "Precedence" :> <<"r", "e", "s", "u", "l", "t", " ", "=", " ", "1", "0", " ", "+",
        " ", "5", " ", "*", " ", "2", "\n", "d", " ", "=", " ", "9", " ", "-", " ", "4",
        " ", "-", " ", "3", "\n">> @@
    \* x = 1
    "SetX" :> <<"x", " ", "=", " ", "1">> @@
    \* print(x)
    "PrintX" :> <<"p", "r", "i", "n", "t", "(", "x", ")">> @@
    \* function f(a): return a + x
    "DefF" :> <<"f", "u", "n", "c", "t", "i", "o", "n", " ", "f", "(", "a", ")", ":",
        " ", "r", "e", "t", "u", "r", "n", " ", "a", " ", "+", " ", "x">> @@
    \* print(f(2))
    "PrintF" :> <<"p", "r", "i", "n", "t", "(", "f", "(", "2", ")", ")">> @@
    \* y = 1 / 0
    "DivZero" :> <<"y", " ", "=", " ", "1", " ", "/", " ", "0">> @@
    \* return 5
    "TopReturn" :> <<"r", "e", "t", "u", "r", "n", " ", "5">> @@
    \* x = 5 print(x) y = )
    "SyntaxErrorLast1" :> <<"x", " ", "=", " ", "5", " ", "p", "r", "i", "n", "t", "(",
        "x", ")", " ", "y", " ", "=", " ", ")">> @@
    \* x = 5 print(x) {
    "LexErrorLast1" :> <<"x", " ", "=", " ", "5", " ", "p", "r", "i", "n", "t", "(", "x",
        ")", " ", "{">> @@
    \* exit
    "Exit" :> <<"e", "x", "i", "t">> @@
    \*  quit 
    "Quit" :> <<" ", "q", "u", "i", "t", " ">> @@
    \* help
    "Help" :> <<"h", "e", "l", "p">> @@
    \* clear
    "Clear" :> <<"c", "l", "e", "a", "r">> @@
    \*   
    "Blank" :> <<" ", " ">> @@
    \* x = 2\nprint(x + 1)\n
    "Program" :> <<"x", " ", "=", " ", "2", "\n", "p", "r", "i", "n", "t", "(", "x", " ",
        "+", " ", "1", ")", "\n">> @@
    \* print(1)\nx = 2\nfunction g(): return 1\ny = )
    "SyntaxErrorLast" :> <<"p", "r", "i", "n", "t", "(", "1", ")", "\n", "x", " ", "=",
        " ", "2", "\n", "f", "u", "n", "c", "t", "i", "o", "n", " ", "g", "(", ")", ":",
        " ", "r", "e", "t", "u", "r", "n", " ", "1", "\n", "y", " ", "=", " ", ")">> @@
    \* print(1)\nx = 2\n  z = 3 ?
    "LexErrorLast" :> <<"p", "r", "i", "n", "t", "(", "1", ")", "\n", "x", " ", "=", " ",
        "2", "\n", " ", " ", "z", " ", "=", " ", "3", " ", "?">> @@
    \* print(1)\nx = 2\ny = 1 / 0\nprint(3)
    "RuntimeErrorLast" :> <<"p", "r", "i", "n", "t", "(", "1", ")", "\n", "x", " ", "=",
        " ", "2", "\n", "y", " ", "=", " ", "1", " ", "/", " ", "0", "\n", "p", "r", "i",
        "n", "t", "(", "3", ")">>

\* the host's str.strip()
RECURSIVE Strip(_)
Strip(chars) ==
    IF chars = <<>> THEN chars
    ELSE IF Head(chars) \in {" ", "\t", "\n"} THEN Strip(Tail(chars))
    ELSE IF chars[Len(chars)] \in {" ", "\t", "\n"}
    THEN Strip(SubSeq(chars, 1, Len(chars) - 1))
    ELSE chars

\* the text of show_help's print call
HelpText ==
    "\nQOR Interactive Shell Commands:\n  exit, quit    - Exit the shell\n"
    \o "  help          - Show this help message\n  vars          - Show all variables\n"
    \o "  clear         - Clear all variables\n  \nExample QOR code:\n  x = 10\n  y = 20\n"
    \o "  result = x + y\n  print(result)\n  print(\"Hello, QOR!\")\n"

\* the outcome of run_code's try block: how far it got, the exception if any, and
\* the interpreter after it
Outcome(reached, sig, msg, st, toks, pos, statements) ==
    [stage |-> reached, sig |-> sig, msg |-> msg, st |-> st, tokens |-> toks, pos |-> pos,
     ast |-> statements]

\* str(e) of the exception that left interpret: a ReturnValue carries its value
ExceptionText(r) == IF r.sig = "ReturnValue" THEN Str(r.val) ELSE r.msg

\* the outcome of run_code once interpret has returned or raised
Interpreted(toks, parsed, ran) ==
    Outcome("interpreted", ran.sig, ExceptionText(ran), ran.st, toks, parsed.pos, parsed.node)

\* run_code after the parser: interpret, unless the parser raised
Parsed(toks, parsed, st) ==
    IF parsed.sig # "ok"
    THEN Outcome("parse failed", parsed.sig, parsed.msg, st, toks, parsed.pos, <<>>)
    ELSE Interpreted(toks, parsed, interpret(parsed.node, st))

\* run_code after the lexer: parse, unless the lexer raised
Tokenized(lexed, parsed, st) ==
    IF lexed.sig # "ok"
    THEN Outcome("tokenize failed", lexed.sig, lexed.msg, st, <<>>, 0, <<>>)
    ELSE Parsed(lexed.tokens, parsed, st)

\* a variant of run_code that reads and runs the text one line at a time
run_code_LineByLine(text, st) ==
    LET RECURSIVE SplitLines(_, _)
        SplitLines(chars, line) ==
            IF chars = <<>> THEN <<line>>
            ELSE IF Head(chars) = "\n" THEN <<line>> \o SplitLines(Tail(chars), <<>>)
            ELSE SplitLines(Tail(chars), Append(line, Head(chars)))
        RECURSIVE RunLines(_, _, _)
        RunLines(lines, i, last) ==
            IF i > Len(lines) \/ last.sig # "ok" THEN last
            ELSE RunLines(lines, i + 1,
                          Tokenized(tokenize(lines[i]), parse(tokenize(lines[i]).tokens),
                                    last.st))
    IN  RunLines(SplitLines(text, <<>>), 1,
                 Outcome("interpreted", "ok", "", st, <<>>, 0, <<>>))

\* the try block of run_code: tokenize, then parse, then interpret
run_code(text, st) ==
    LET lexed == tokenize(text)
    IN  Tokenized(lexed, parse(lexed.tokens), st)

\* what the except clauses of run_code print
Report(r, filename) ==
    (IF r.sig = "SyntaxError" THEN "Syntax Error in " ELSE "Runtime Error in ")
    \o filename \o ": " \o r.msg

\* the end of run_code with the outcome r of its try block: what the interpreter
\* printed is on the console, a failure is reported and ends the process with
\* sys.exit(1)
Finished(name, filename, ended, r) ==
    /\ r.sig # "Unfollowed"
    /\ global_vars' = r.st.global_vars
    /\ local_vars' = r.st.local_vars
    /\ functions' = r.st.functions
    /\ output' = r.st.output
    /\ trace' = r.st.trace
    /\ raised' = r.sig
    /\ message' = r.msg
    /\ token_list' = r.tokens
    /\ cursor' = r.pos
    /\ ast' = r.ast
    /\ stage' = r.stage
    /\ console' = (console \o SubSeq(r.st.output, Len(output) + 1, Len(r.st.output)))
                     \o (IF r.sig = "ok" THEN <<>> ELSE <<Report(r, filename)>>)
    /\ status' = IF r.sig = "ok" THEN ended ELSE "exit1"
    /\ program' = name
    /\ source_code' = ShellTexts[name]
    /\ runs' = runs + 1

\* self.run_code(code, filename) on the text named name
RunCode(name, filename, ended) ==
    Finished(name, filename, ended, run_code(ShellTexts[name], Current))

\* the name of the file given on the command line
FileName == "program.qor"

\* main with a file name: runtime.run_file(arg), then the process ends
RunFile(name) ==
    /\ mode = "none"
    /\ mode' = "file"
    /\ RunCode(name, FileName, "exit0")

\* main with --repl: the banner of repl
StartRepl ==
    /\ mode = "none"
    /\ mode' = "repl"
    /\ console' = console \o <<"QOR v1.0.0 Interactive Shell",
                               "Type 'exit' or 'quit' to exit, 'help' for help",
                               "--------------------------------------------------">>
    /\ UNCHANGED <<global_vars, local_vars, functions, output, program, ast, raised,
                   message, trace, runs, front, status>>

\* a line that the REPL handles itself or skips: nothing is tokenized
Command(name, said, ended) ==
    /\ console' = console \o said
    /\ status' = ended
    /\ program' = name
    /\ source_code' = ShellTexts[name]
    /\ token_list' = <<>>
    /\ cursor' = 0
    /\ ast' = <<>>
    /\ stage' = "command"
    /\ raised' = "ok"
    /\ message' = ""
    /\ runs' = runs + 1
    /\ UNCHANGED <<functions, output, trace, mode>>

\* one iteration of the loop of repl on the line input() returns.  The lines
\* drawn have no newline; `vars` is not among them.
ReplLine(name) ==
    /\ mode = "repl"
    /\ status = "running"
    /\ runs < MaxLines
    /\ \A i \in DOMAIN ShellTexts[name] : ShellTexts[name][i] # "\n"
    /\ LET line == Join(Strip(ShellTexts[name]))
       IN  CASE line \in {"exit", "quit"} ->
                   /\ Command(name, <<"Goodbye!">>, "exit0")
                   /\ UNCHANGED <<global_vars, local_vars>>
             [] line = "help" ->
                   /\ Command(name, <<HelpText>>, "running")
                   /\ UNCHANGED <<global_vars, local_vars>>
             [] line = "clear" ->
                   /\ Command(name, <<"Variables cleared">>, "running")
                   /\ IF local_vars # <<>>
                      THEN /\ local_vars' = [local_vars EXCEPT ![Len(local_vars)] = EmptyDict]
                           /\ UNCHANGED global_vars
                      ELSE /\ global_vars' = EmptyDict
                           /\ UNCHANGED local_vars
             [] line = "" ->
                   /\ Command(name, <<>>, "running")
                   /\ UNCHANGED <<global_vars, local_vars>>
             [] OTHER ->
                   /\ RunCode(name, "<repl>", "running")
                   /\ UNCHANGED mode

\* input() raises EOFError: end of the input
ReplEOF ==
    /\ mode = "repl"
    /\ status = "running"
    /\ console' = Append(console, "\nGoodbye!")
    /\ status' = "exit0"
    /\ UNCHANGED <<global_vars, local_vars, functions, output, program, ast, raised,
                   message, trace, runs, front, mode>>

\* input() raises KeyboardInterrupt
ReplInterrupt ==
    /\ mode = "repl"
    /\ status = "running"
    /\ console' = Append(console, "\nKeyboardInterrupt")
    /\ status' = "exit0"
    /\ UNCHANGED <<global_vars, local_vars, functions, output, program, ast, raised,
                   message, trace, runs, front, mode>>

ShellNext ==
    \/ \E name \in DOMAIN ShellTexts : RunFile(name)
    \/ StartRepl
    \/ \E name \in DOMAIN ShellTexts : ReplLine(name)
    \/ ReplEOF
    \/ ReplInterrupt

ShellSpec == Init /\ [][ShellNext]_vars

(***************************************************************************)
(* Properties.                                                             *)
(***************************************************************************)
\* the function definitions of Prelude have been executed
Loaded == "add" \in DOMAIN functions

\* the last n printed lines
LastOut(n) ==
    IF Len(output) < n THEN <<>> ELSE SubSeq(output, Len(output) - n + 1, Len(output))

\* the entries of the history of one kind
Events(ev) == {i \in 1..Len(trace) : trace[i].ev = ev}

\* an and/or whose left operand is a literal that already determines the result
Determined(node) ==
    /\ node.type = "BinaryOpNode"
    /\ node.left.type = "BooleanNode"
    /\ \/ node.operator = "and" /\ ~node.left.value
       \/ node.operator = "or" /\ node.left.value

\* C1: when the left operand of and/or already determines the result, the right
\* operand is not evaluated: the assignment x = L and/or R completes without an
\* error and the only nodes visited are the assignment, the operation and L.
C1_ShortCircuit ==
    (Len(ast) = 1 /\ ast[1].type = "AssignmentNode" /\ Determined(ast[1].value))
        => /\ raised = "ok"
           /\ trace = << Event("visit", "AssignmentNode", 0),
                         Event("visit", "BinaryOpNode", 0),
                         Event("visit", "BooleanNode", 0),
                         Event("set", ast[1].variable, 0) >>

\* C2: a function reads the globals as they were when it was defined: getx()
\* yields the value x had in the snapshot taken by the definition, and gety(),
\* defined while y did not exist, fails with an undefined-variable error.
C2_DefinitionTimeGlobals ==
    /\ (program = "PrintGetx" /\ Loaded)
          => /\ raised = "ok"
             /\ LastOut(1) = <<Str(functions["getx"].closure["x"])>>
    /\ (program = "PrintGety" /\ Loaded /\ "y" \notin DOMAIN functions["gety"].closure)
          => /\ raised = "RuntimeError"
             /\ message = "Undefined variable: 'y'"

\* C3 as stated: while callee() runs, called from the body of outer(a), reading a,
\* which is bound only in outer's frame, raises an undefined-variable error.
C3_InnermostScopeOnly ==
    (program = "PrintOuter" /\ Loaded /\ "a" \notin DOMAIN global_vars)
        => /\ raised = "RuntimeError"
           /\ message = "Undefined variable: 'a'"

\* C3 as amended: lookup consults every active local scope, most recently pushed
\* first, and then the global scope.  callee() called from outer(1) reads outer's
\* a; called through mid(1) -> outer(2) it reads the more recent a = 2; and a name
\* bound in no active scope and not globally is an undefined-variable error.
C3_AllActiveScopes ==
    /\ (program = "PrintOuter" /\ Loaded) => (raised = "ok" /\ LastOut(1) = <<"1">>)
    /\ (program = "PrintMid" /\ Loaded) => (raised = "ok" /\ LastOut(1) = <<"2">>)
    /\ (program = "PrintLeak" /\ Loaded /\ "t" \notin DOMAIN global_vars)
          => (raised = "RuntimeError" /\ message = "Undefined variable: 't'")
C3_Witness == program = "PrintMid" /\ Loaded /\ raised = "ok"

\* one interpret call, as C4 sees it
C4Step ==
    /\ (\A i \in Events("set")' : trace'[i].depth >= 1) => global_vars' = global_vars
    /\ (program' = "SetX2") => (global_vars' = Put(global_vars, "x", Int_(2)))
    /\ (program' = "PrintNest" /\ Loaded)
          => (raised' = "ok" /\ output' = output \o <<"1">>)
    /\ (program' = "PrintFloop" /\ Loaded)
          => (raised' = "ok" /\ output' = output \o <<"0", "1", "None">>)

\* C4: an assignment or for-loop binding made while a call frame is active writes
\* the innermost frame only.  If every write of an interpret call happened at
\* depth >= 1 the global scope is unchanged; a top-level assignment lands in the
\* global scope; setx() called from nest(1) leaves nest's own x at 1; the loop
\* of floop(9) binds floop's own x.
C4_AssignInnermost == [][C4Step]_vars
C4_Witness ==
    /\ program = "PrintNest" /\ raised = "ok"
    /\ "x" \in DOMAIN global_vars
    /\ \E i \in Events("set") : trace[i].name = "x" /\ trace[i].depth = 2

\* the calls of the history are properly nested and each exit leaves the scope
\* stack as deep as it was at the call   (open: depths of the calls still open)
RECURSIVE Balanced(_, _)
Balanced(i, open) ==
    IF i > Len(trace) THEN open = <<>>
    ELSE CASE trace[i].ev = "call" -> Balanced(i + 1, Append(open, trace[i].depth))
           [] trace[i].ev = "exit" ->
                /\ open # <<>>
                /\ open[Len(open)] = trace[i].depth
                /\ Balanced(i + 1, SubSeq(open, 1, Len(open) - 1))
           [] OTHER -> Balanced(i + 1, open)

\* C5: the scope stack is balanced across every user-function call, however the
\* call ends, and it is empty after every interpret call.
C5_StackBalanced == local_vars = <<>> /\ Balanced(1, <<>>)
C5_Witness ==
    /\ raised = "RuntimeError"
    /\ \E i \in Events("exit") : trace[i].name = "error" /\ trace[i].depth = 2

\* C6: a return ends exactly the innermost active call.  In the history a return
\* raised at depth d >= 1 is followed at once by the exit of the call at depth
\* d (nothing else of that call runs), and every exit by return follows its own
\* return; find(3) returns from inside its loop at i = 1, before the iteration
\* i = 2, and wrap(3), which called it, goes on to add 10 and return 11; spin()
\* returns out of its while loop.
C6_ReturnEndsInnermostCall ==
    /\ \A i \in Events("raise") :
          trace[i].depth >= 1 =>
             /\ i < Len(trace)
             /\ trace[i + 1] = Event("exit", "return", trace[i].depth - 1)
    /\ \A i \in Events("exit") :
          trace[i].name = "return" =>
             /\ i > 1
             /\ trace[i - 1] = Event("raise", "ReturnValue", trace[i].depth + 1)
    /\ (program = "PrintFind" /\ Loaded)
          => /\ raised = "ok" /\ LastOut(1) = <<"1">>
             /\ Cardinality({i \in Events("visit") : trace[i].name = "PrintNode"}) = 1
             /\ Cardinality({i \in Events("set") : trace[i].name = "i"}) = 2
    /\ (program = "PrintWrap" /\ Loaded) => (raised = "ok" /\ LastOut(1) = <<"11">>)
    /\ (program = "PrintSpin" /\ Loaded) => (raised = "ok" /\ LastOut(1) = <<"2">>)
C6_Witness ==
    /\ program = "PrintWrap" /\ raised = "ok"
    /\ \E i \in Events("raise") : trace[i].depth = 2

C8Step ==
    /\ \A p \in {"AddOneArg", "AddThreeArgs"} :
          (program' = p /\ Loaded)
             => /\ raised' = "RuntimeError"
                /\ message' = "Function 'add' expects 2 arguments, got "
                                 \o ToString(Len(Programs[p][1].args))
                /\ Events("call")' = {}
                /\ <<global_vars, local_vars, functions, output>>'
                     = <<global_vars, local_vars, functions, output>>
    /\ (program' = "AddNoisyArg" /\ Loaded)
          => LET alone == interpret(<<Noisy(7)>>, Current)
             IN  /\ raised' = "RuntimeError"
                 /\ message' = "Function 'add' expects 2 arguments, got 1"
                 /\ \A i \in Events("call")' : trace'[i].name \in {"noisy", "shout"}
                 /\ alone.sig = "ok"
                 /\ global_vars' = alone.st.global_vars
                 /\ local_vars' = alone.st.local_vars
                 /\ functions' = alone.st.functions
                 /\ output' = alone.st.output
                 /\ output' = output \o <<"7">>

\* C8: a call with the wrong number of arguments raises a RuntimeError after the
\* arguments are evaluated; no scope is pushed and no body runs, so the state is
\* the one evaluating the arguments alone leaves.
C8_ArityMismatch == [][C8Step]_vars
C8_Witness ==
    /\ program = "AddNoisyArg" /\ Loaded /\ raised = "RuntimeError"
    /\ LastOut(1) = <<"7">>

\* one interpret call, as C9 sees it
C9Step ==
    /\ (program' = "SetXDivZero" \/ (program' = "SetZDivZero" /\ "x" \in DOMAIN global_vars))
          => /\ raised' = "RuntimeError"
             /\ message' = "Division by zero"
             /\ global_vars' = global_vars
             /\ output' = output
    /\ (program' = "PrintRecZero" /\ Loaded)
          => /\ raised' = "RuntimeError"
             /\ message' = "Division by zero"
             /\ output' = output

\* C9: a division whose right operand evaluates to zero raises the RuntimeError
\* "Division by zero"; as the right-hand side of an assignment it leaves the
\* target as it was, bound or unbound.
C9_DivisionByZero == [][C9Step]_vars
C9_Witness ==
    /\ program = "SetZDivZero" /\ raised = "RuntimeError" /\ message = "Division by zero"
    /\ "z" \notin DOMAIN global_vars

\* the names the programs bind only inside function bodies
LocalNames == {"a", "b", "k", "n", "z", "t", "i"}

\* one interpret call, as C10 sees it
C10Step ==
    /\ LocalNames \cap DOMAIN global_vars' = {}
    /\ \A p \in {"PrintZ", "PrintA"} :
          program' = p
             => /\ raised' = "RuntimeError"
                /\ message' = "Undefined variable: '"
                                 \o Programs[p][1].expression.name \o "'"
                /\ <<global_vars, local_vars, functions, output>>'
                     = <<global_vars, local_vars, functions, output>>
    /\ (program' = "PrintLeak" /\ Loaded)
          => /\ raised' = "RuntimeError"
             /\ message' = "Undefined variable: 't'"
             /\ <<global_vars, local_vars, functions, output>>'
                  = <<global_vars, local_vars, functions, output>>

\* C10: reading a name bound in no scope raises the undefined-variable RuntimeError
\* and changes nothing; a parameter or local of a call is unbound again once
\* the call has returned.
C10_UndefinedVariable == [][C10Step]_vars
C10_Witness ==
    /\ program = "PrintA" /\ raised = "RuntimeError"
    /\ \E i \in 1..Len(output) : output[i] = "5"

(***************************************************************************)
(* Properties of the control-flow programs (FlowSpec).                     *)
(***************************************************************************)
\* the function definitions of FlowPrelude have been executed
FlowLoaded == "noisy" \in DOMAIN functions

\* the lines print(0) .. print(n - 1) emit
Counted(n) == [j \in 1..n |-> ToString(j - 1)]

\* the visits of one node kind at one scope depth in the history
VisitsAt(kind, depth) ==
    {i \in 1..Len(trace) : trace[i] = Event("visit", kind, depth)}

\* one interpret call, as C11 sees it
C11Step ==
    /\ \A n \in 0..3 :
          program' = "For" \o ToString(n)
             => /\ raised' = "ok"
                /\ output' = output \o Counted(n)
                /\ global_vars' = IF n = 0 THEN global_vars
                                  ELSE Put(global_vars, "i", Int_(n - 1))
                /\ local_vars' = <<>>
                /\ Cardinality(VisitsAt("RangeNode", 0)') = 1
                /\ \A i \in 1..Len(trace') : trace'[i].depth = 0
    /\ program' = "ForAssign"
          => /\ raised' = "ok"
             /\ global_vars' = Put(global_vars, "i", Int_(12))
             /\ Cardinality(VisitsAt("AssignmentNode", 0)') = 3
    /\ (program' = "ForNoisy" /\ FlowLoaded)
          => /\ raised' = "ok"
             /\ output' = output \o <<"2", "0", "1">>
             /\ global_vars' = Put(global_vars, "i", Int_(1))
    /\ (program' = "PrintLoopf" /\ FlowLoaded)
          => /\ raised' = "ok"
             /\ output' = output \o <<"0", "1", "None">>
             /\ global_vars' = global_vars
             /\ Cardinality(VisitsAt("PrintNode", 1)') = 2
             /\ \A i \in 1..Len(trace') : trace'[i].depth <= 1

\* C11: a for loop evaluates its iterable once, pushes no scope and runs its body
\* once per element, in order, with the loop variable bound in the current scope.
\* for i in range(n): print(i) prints 0 .. n-1 and leaves i = n-1 (n = 0: nothing
\* runs and i is as it was); a body that assigns i still runs three times over
\* 0, 1, 2 (i ends as 2 + 10); range(noisy(2)) prints 2 once; inside loopf(2) the
\* loop binds i in the call's own frame.
C11_ForLoop == [][C11Step]_vars
C11_Witness ==
    /\ program = "For0" /\ raised = "ok"
    /\ "i" \in DOMAIN global_vars /\ global_vars["i"].n = 9

\* what if noisy(a): print(10) elif noisy(b): print(20) elif noisy(c): print(25)
\* else: print(30) prints when conditions are evaluated up to the first truthy one
ChainLines(a, b, c) ==
    IF a = 1 THEN <<"1", "10">>
    ELSE IF b = 1 THEN <<"0", "1", "20">>
    ELSE IF c = 1 THEN <<"0", "0", "1", "25">>
    ELSE <<"0", "0", "0", "30">>

\* one interpret call, as C12 sees it
C12Step ==
    /\ \A a, b, c \in 0..1 :
          LET p == "If" \o ToString(a) \o ToString(b) \o ToString(c)
          IN  (p \in DOMAIN FlowPrograms /\ program' = p /\ FlowLoaded)
                 => /\ raised' = "ok"
                    /\ output' = output \o ChainLines(a, b, c)
                    /\ Cardinality(VisitsAt("PrintNode", 0)') = 1
    /\ (program' = "IfNoElse0" /\ FlowLoaded)
          => /\ raised' = "ok"
             /\ output' = output \o <<"0", "0">>
             /\ VisitsAt("PrintNode", 0)' = {}
    /\ (program' = "IfNoElse1" /\ FlowLoaded)
          => (raised' = "ok" /\ output' = output \o <<"0", "1", "20">>)

\* C12: an if/elif/else statement runs at most one branch body.  The conditions
\* are evaluated in source order up to the first truthy one, whose body alone
\* runs; the else body runs exactly when there is one and every condition was
\* falsy.  (Each condition prints its value when it is evaluated.)
C12_OneBranch == [][C12Step]_vars
C12_Witness ==
    /\ program = "If011" /\ raised = "ok"
    /\ LastOut(3) = <<"0", "1", "20">>

\* one interpret call, as C14 sees it
C14Step ==
    /\ program' = "Abort"
          => /\ raised' = "RuntimeError"
             /\ message' = "Division by zero"
             /\ output' = output \o <<"1">>
             /\ global_vars' = Put(global_vars, "x", Int_(5))
             /\ DOMAIN functions' = DOMAIN functions \cup {"keep"}
             /\ local_vars' = <<>>
    /\ (program' = "AbortInCall" /\ FlowLoaded)
          => /\ raised' = "RuntimeError"
             /\ message' = "Division by zero"
             /\ output' = output \o <<"3", "1">>
             /\ global_vars' = global_vars
             /\ local_vars' = <<>>

\* C14: interpret runs the top-level statements in list order and the first
\* RuntimeError ends it.  In print(1), x = 5, function keep(), y = 1 / 0,
\* print(2), x = 6 the first three statements keep their effects, y is not
\* written, and neither print(2) nor x = 6 runs; an error raised two calls deep
\* ends interpret the same way.
C14_FirstErrorAborts == [][C14Step]_vars
C14_Witness ==
    /\ program = "Abort" /\ raised = "RuntimeError"
    /\ "keep" \in DOMAIN functions
    /\ "x" \in DOMAIN global_vars /\ global_vars["x"].n = 5

\* one interpret call, as C20 sees it
C20Step ==
    /\ \A i \in Events("call")' : trace'[i].name \notin Builtins
    /\ program' = "PrintAbs"
          => /\ raised' = "ok"
             /\ output' = output \o <<"5">>
             /\ Events("call")' = {}
    /\ (program' = "PrintAbsNoisy" /\ FlowLoaded)
          => (raised' = "ok" /\ output' = output \o <<"3", "3">>)
    /\ \A p \in {"AbsNoArg", "AbsTwoArgs"} :
          program' = p
             => /\ raised' = "RuntimeError"
                /\ message' = BuiltinError("abs")
                /\ <<global_vars, local_vars, functions, output>>'
                     = <<global_vars, local_vars, functions, output>>

\* C20: builtin names are reserved.  A call of abs runs the builtin on the
\* evaluated arguments, also after function abs(v) has been defined, whose body
\* never runs; a builtin called with the wrong number of arguments fails with a
\* RuntimeError and changes nothing.
C20_BuiltinsReserved == [][C20Step]_vars
C20_Witness ==
    /\ program = "PrintAbs" /\ raised = "ok"
    /\ "abs" \in DOMAIN functions
    /\ LastOut(1) = <<"5">>

(***************************************************************************)
(* Properties of the front end (FrontSpec).                                *)
(***************************************************************************)
\* the token types of a token sequence
Types(toks) == [i \in DOMAIN toks |-> toks[i].type]

\* C15: the power operator is one token: tokenizing `2 ** 3` gives NUMBER "2",
\* POWER "**", NUMBER "3", and a text that writes `**` gets a POWER token and no two
\* MULTIPLY tokens in a row.
C15_PowerOneToken ==
    (stage = "tokens" /\ program \in {"Power", "Test5"}) =>
        /\ \E i \in DOMAIN token_list : token_list[i] = Token("POWER", <<"*", "*">>)
        /\ ~\E i \in 1..(Len(token_list) - 1) :
                /\ token_list[i].type = "MULTIPLY"
                /\ token_list[i + 1].type = "MULTIPLY"
        /\ program = "Power" =>
                token_list = <<Token("NUMBER", <<"2">>), Token("POWER", <<"*", "*">>),
                               Token("NUMBER", <<"3">>)>>

\* C16: a dict literal and a method call written in source text get through the
\* lexer: tokenizing `person = {"name": "Ali", "age": 25}` or `obj.name(1)` raises
\* no error.
C16_DictAndMethodTokenize ==
    program \in {"DictLiteral", "MethodCall"} => stage # "tokenize failed"

\* C17: parse ends either with a SyntaxError and no statement list, or with the
\* cursor at the end of the token sequence; no iteration of its statement loop
\* leaves the cursor where it was without raising.
C17_ParseConsumesAll ==
    /\ raised # "Stalled"
    /\ stage = "parsed" => raised = "ok" /\ cursor = Len(token_list)
    /\ stage = "parse failed" => raised = "SyntaxError" /\ ast = <<>>

C17_Witness ==
    /\ stage = "parsed"
    /\ Len(ast) = 2
    /\ cursor = Len(token_list)
    /\ \E i \in DOMAIN token_list : token_list[i].type = "NEWLINE"

\* the last token of a sequence that is not a NEWLINE, NoToken if there is none
RECURSIVE LastToken(_)
LastToken(toks) ==
    IF toks = <<>> THEN NoToken
    ELSE IF toks[Len(toks)].type = "NEWLINE" THEN LastToken(SubSeq(toks, 1, Len(toks) - 1))
    ELSE toks[Len(toks)]

\* C18: a token sequence that ends at the `:` of a block header, with no body
\* statement after it, is rejected by parse with a SyntaxError.
C18_HeaderWithoutBody ==
    (stage \in {"parsed", "parse failed"} /\ LastToken(token_list).type = "COLON") =>
        stage = "parse failed" /\ raised = "SyntaxError"

\* the texts with a lexical or syntax error after valid statements
ErrorLast == {"SyntaxErrorLast", "LexErrorLast", "SyntaxErrorLast1", "LexErrorLast1"}

\* one run of a source text by the shell, as C13 sees it
C13Step ==
    (runs' = runs + 1 /\ (program' \in ErrorLast \/ stage' \in {"tokenize failed", "parse failed"}))
        => /\ stage' \in {"tokenize failed", "parse failed"}
           /\ raised' = "SyntaxError"
           /\ <<global_vars, local_vars, functions, output>>'
                = <<global_vars, local_vars, functions, output>>
           /\ trace' = <<>>
           /\ console' = Append(console,
                                "Syntax Error in "
                                   \o (IF mode' = "file" THEN FileName ELSE "<repl>")
                                   \o ": " \o message')
           /\ status' = "exit1"

\* C13: the shell tokenizes and parses the whole text before it executes the first
\* statement.  A run of a text with a lexical or syntax error anywhere, even after
\* valid statements, visits no node, prints no line of the program and changes no
\* variable or function of the interpreter: the only output is the error report.
C13_FrontEndBeforeExecution == [][C13Step]_vars
C13_Witness ==
    /\ mode = "repl" /\ program = "SyntaxErrorLast1" /\ stage = "parse failed"
    /\ cursor > 0
    /\ "x" \in DOMAIN global_vars /\ global_vars["x"] = Int_(1)

\* C19: in the REPL a line that causes a lexical, syntax or runtime error is
\* reported and the loop goes on reading: after an erroneous line the REPL is
\* still running.
C19_ReplKeepsReading == (mode = "repl" /\ raised # "ok") => status = "running"

\* node is the binary operation `operator` and its operands satisfy left and right
IsBinary(node, operator) == node.type = "BinaryOpNode" /\ node.operator = operator
\* node is the integer literal n
IsNumeral(node, n) == node.type = "NumberNode" /\ node.value = Int_(n)

\* C22: multiplicative operators bind tighter than additive ones and both levels
\* are left-associative: the shell parses `result = 10 + 5 * 2` to 10 + (5 * 2)
\* and `d = 9 - 4 - 3` to (9 - 4) - 3, and running them leaves result = 20 and
\* d = 2.
C22_Precedence ==
    program = "Precedence" =>
        /\ raised = "ok" /\ Len(ast) = 2
        /\ IsBinary(ast[1].value, "+")
        /\ IsNumeral(ast[1].value.left, 10)
        /\ IsBinary(ast[1].value.right, "*")
        /\ IsNumeral(ast[1].value.right.left, 5)
        /\ IsNumeral(ast[1].value.right.right, 2)
        /\ IsBinary(ast[2].value, "-")
        /\ IsBinary(ast[2].value.left, "-")
        /\ IsNumeral(ast[2].value.left.left, 9)
        /\ IsNumeral(ast[2].value.left.right, 4)
        /\ IsNumeral(ast[2].value.right, 3)
        /\ global_vars["result"] = Int_(20)
        /\ global_vars["d"] = Int_(2)

C22_Witness ==
    /\ program = "Precedence" /\ stage = "interpreted" /\ status = "exit0"
    /\ global_vars["result"] = Int_(20)

\* the lexemes of a token list, one after the other
RECURSIVE Lexemes(_)
Lexemes(toks) == IF toks = <<>> THEN <<>> ELSE Head(toks).value \o Lexemes(Tail(toks))

\* one character of a source text read in the state where ("code", "string" or
\* "comment"): what is kept of it and the state after it.  A comment is a `#`
\* outside a string literal up to the end of its line; spaces and tabs are
\* dropped outside string literals, and inside them too unless in_strings.
StrippedChar(c, where, in_strings) ==
    CASE where = "comment" ->
            IF c = "\n" THEN [out |-> <<c>>, where |-> "code"]
            ELSE [out |-> <<>>, where |-> "comment"]
      [] where = "string" ->
            IF c = "\"" THEN [out |-> <<c>>, where |-> "code"]
            ELSE IF c \in Blanks /\ ~in_strings THEN [out |-> <<>>, where |-> "string"]
            ELSE [out |-> <<c>>, where |-> "string"]
      [] OTHER ->
            IF c = "#" THEN [out |-> <<>>, where |-> "comment"]
            ELSE IF c = "\"" THEN [out |-> <<c>>, where |-> "string"]
            ELSE IF c \in Blanks THEN [out |-> <<>>, where |-> "code"]
            ELSE [out |-> <<c>>, where |-> "code"]

\* the characters lo..hi of a source text read so, by halves
RECURSIVE StrippedPart(_, _, _, _, _)
StrippedPart(chars, lo, hi, where, in_strings) ==
    IF lo > hi THEN [out |-> <<>>, where |-> where]
    ELSE IF lo = hi THEN StrippedChar(chars[lo], where, in_strings)
    ELSE LET mid == (lo + hi) \div 2
             left == StrippedPart(chars, lo, mid, where, in_strings)
             right == StrippedPart(chars, mid + 1, hi, left.where, in_strings)
         IN  [out |-> left.out \o right.out, where |-> right.where]

\* a source text without its comments and without its spaces and tabs
Stripped(chars, in_strings) == StrippedPart(chars, 1, Len(chars), "code", in_strings).out

\* the number of line breaks in a sequence of characters
LineBreaks(chars) == Cardinality({i \in DOMAIN chars : chars[i] = "\n"})

\* the line breaks of the text that tokens of another type do not hold
NewlineTokens(toks) == Cardinality({i \in DOMAIN toks : toks[i].type = "NEWLINE"})
InStrings(toks) == [i \in DOMAIN toks |-> IF toks[i].type = "STRING" THEN toks[i] ELSE Token("", <<>>)]

\* a text has been tokenized without error
Tokenized_ == source_code # <<>> /\ stage \in {"tokens", "parsed", "parse failed"}

\* the tokens the v1 test prints for `x = 10 + 5`
V1Tokens ==
    <<Token("ID", <<"x">>), Token("ASSIGN", <<"=">>), Token("NUMBER", <<"1", "0">>),
      Token("PLUS", <<"+">>), Token("NUMBER", <<"5">>)>>

\* C23 as stated: the lexemes of the tokens, in order, are the source without any
\* of its spaces, tabs and comments, and there is one NEWLINE token for every
\* line break of the source.
C23_TokenizeEverywhere ==
    Tokenized_ =>
        /\ Lexemes(token_list) = Stripped(source_code, FALSE)
        /\ NewlineTokens(token_list) = LineBreaks(source_code)
        /\ program = "V1Test" => token_list = V1Tokens

\* C23: tokenize emits the tokens in source order and discards the spaces, tabs
\* and comments that lie outside string literals; a string literal is one token
\* that keeps the spaces, tabs and line breaks inside it.  There is one NEWLINE
\* token for every line break outside a string literal, `x = 10 + 5` gives ID x,
\* ASSIGN =, NUMBER 10, PLUS +, NUMBER 5, and the lexemes one after the other are
\* the source without the spaces, tabs and comments outside string literals.
C23_TokenizeOutsideStrings ==
    Tokenized_ =>
        /\ Lexemes(token_list) = Stripped(source_code, TRUE)
        /\ NewlineTokens(token_list) + LineBreaks(Lexemes(InStrings(token_list)))
             = LineBreaks(source_code)
        /\ \A i \in DOMAIN token_list :
                token_list[i].type \notin {"SKIP", "COMMENT", "INDENT", ""}
        /\ program = "V1Test" => token_list = V1Tokens

C23_Witness ==
    /\ program = "Spaced" /\ stage = "tokens"
    /\ Len(token_list) = 5
    /\ token_list[3] = Token("STRING", <<"\"", "a", " ", "b", "\"">>)
    /\ token_list[5].type = "NEWLINE"

\* the integer an integer literal stands for
IntOf(node) == IF node.type = "UnaryOpNode" THEN -node.operand.value.n ELSE node.value.n

\* the step y = c[i] on a container c bound before it: the subscript expression,
\* the container and the integer subscript
Subscripted == ast'[1].value
Container == global_vars[Subscripted.obj.name]
IsIndexStep ==
    /\ program' = "Index" /\ runs' = runs + 1
    /\ Subscripted.obj.name \in DOMAIN global_vars

\* the subscript returned the element at position pos (counted from 1)
Returned(pos) ==
    /\ raised' = "ok"
    /\ global_vars' = Put(global_vars, "y", Container.items[pos])
\* the subscript raised the RuntimeError with the text msg and bound nothing
IndexError(msg) ==
    /\ raised' = "RuntimeError" /\ message' = "Index error: " \o msg
    /\ global_vars' = global_vars

\* a dict subscripted with an integer
DictStep(i) ==
    Container.k = "dict" =>
        IF \E j \in DOMAIN Container.keys : Container.keys[j] = Int_(i)
        THEN Returned(CHOOSE j \in DOMAIN Container.keys : Container.keys[j] = Int_(i))
        ELSE IndexError(ToString(i))

\* C24 as stated: every integer subscript of a list outside 0..n-1 raises
C24Step_Positions(i, n) ==
    /\ Container.k = "list" =>
            IF i \in 0..(n - 1) THEN Returned(i + 1)
            ELSE IndexError("list index out of range")
    /\ DictStep(i)

C24Step(i, n) ==
    /\ Container.k = "list" =>
            IF i \in 0..(n - 1) THEN Returned(i + 1)
            ELSE IF i \in (-n)..(-1) THEN Returned(n + i + 1)
            ELSE IndexError("list index out of range")
    /\ DictStep(i)

\* C24 as stated: subscripting a list of length n with an integer that is not one
\* of 0..n-1, or a dict with a key it does not hold, raises the RuntimeError
\* "Index error: ..."; a position in 0..n-1 or a key held gives the stored
\* element; the container is left as it was.
C24_IndexPositionsOnly ==
    [][IsIndexStep => C24Step_Positions(IntOf(Subscripted.index), Len(Container.items))]_vars

\* C24: subscripting a list of length n with an integer outside -n..n-1, or a dict
\* with a key it does not hold, raises the RuntimeError "Index error: ..."; a
\* position i in 0..n-1 gives the element at i, a position i in -n..-1 gives the
\* element at n + i, a key held gives its value; the container is left as it was.
C24_IndexOutOfRange ==
    [][IsIndexStep => C24Step(IntOf(Subscripted.index), Len(Container.items))]_vars

C24_Witness ==
    /\ program = "Index" /\ raised = "RuntimeError"
    /\ message = "Index error: list index out of range"
    /\ ast[1].value.obj.name = "xs" /\ IntOf(ast[1].value.index) = -3
    /\ "xs" \in DOMAIN global_vars /\ global_vars["xs"] = ListValue(<<Int_(10), Int_(20)>>)

\* C25: every arithmetic division by zero is a RuntimeError: z = a % b with b
\* zero raises the interpreter's RuntimeError, as z = a / b does, and no host
\* exception of another kind leaves interpret.
C25_ModuloByZero ==
    (program \in {"Arithmetic", "FloatModulo"} /\ IntOf(ast[1].value.right) = 0) =>
        raised = "RuntimeError"

\* node is the variable name
IsVariable(node, name) == node.type = "VariableNode" /\ node.name = name

\* the parser has been run on the tokens a ** b * c
PowerTimesParsed == program = "PowerTimes" /\ stage # "tokens"

\* C26 as stated: the right operand of the power operator is parsed at the
\* multiplicative level: the tokens a POWER b MULTIPLY c parse to a ** (b * c),
\* the product being the right child of the power node.
C26_PowerRightIsTerm ==
    PowerTimesParsed =>
        /\ stage = "parsed" /\ Len(ast) = 1
        /\ IsBinary(ast[1], "**")
        /\ IsVariable(ast[1].left, "a")
        /\ IsBinary(ast[1].right, "*")
        /\ IsVariable(ast[1].right.left, "b")
        /\ IsVariable(ast[1].right.right, "c")

\* C26: the right operand of the power operator is parsed at the factor level:
\* the tokens a POWER b MULTIPLY c parse to (a ** b) * c, the power node being
\* the left child of the product.
C26_PowerRightIsFactor ==
    PowerTimesParsed =>
        /\ stage = "parsed" /\ Len(ast) = 1
        /\ IsBinary(ast[1], "*")
        /\ IsBinary(ast[1].left, "**")
        /\ IsVariable(ast[1].left.left, "a")
        /\ IsVariable(ast[1].left.right, "b")
        /\ IsVariable(ast[1].right, "c")

C26_Witness ==
    /\ program = "PowerTimes" /\ stage = "parsed" /\ cursor = 5
    /\ IsBinary(ast[1], "*") /\ IsBinary(ast[1].left, "**")

\* the text word begins with the text prefix
StartsWith(word, prefix) ==
    Len(prefix) <= Len(word) /\ SubSeq(word, 1, Len(prefix)) = prefix

\* the tokens of a text once the lexer has run on it
TokensOf(name, toks) == program = name => (stage = "source" \/ token_list = toks)

\* C27: keyword patterns are not anchored to word boundaries and come before the
\* identifier pattern: a word that begins with a keyword's text is never one ID
\* token (no ID lexeme begins with a keyword); `index` gives IN in, ID dex,
\* `order` gives OR or, ID der, `format` gives FOR for, ID mat, and `int(3.5)`
\* gives IN in, ID t, ..., which the parser rejects, so no call of the builtin
\* int is built from source text.
C27_KeywordsUnanchored ==
    /\ Tokenized_ =>
            \A i \in DOMAIN token_list :
                token_list[i].type = "ID" =>
                    \A k \in Keywords : ~StartsWith(token_list[i].value, Words[k])
    /\ TokensOf("Index", <<Token("IN", Words["IN"]), Token("ID", <<"d", "e", "x">>)>>)
    /\ TokensOf("Order", <<Token("OR", Words["OR"]), Token("ID", <<"d", "e", "r">>),
                           Token("ASSIGN", <<"=">>), Token("NUMBER", <<"1">>)>>)
    /\ TokensOf("Format", <<Token("FOR", Words["FOR"]), Token("ID", <<"m", "a", "t">>)>>)
    /\ TokensOf("IntCall", <<Token("ID", <<"x">>), Token("ASSIGN", <<"=">>),
                             Token("IN", Words["IN"]), Token("ID", <<"t">>),
                             Token("LPAREN", <<"(">>), Token("NUMBER", <<"3", ".", "5">>),
                             Token("RPAREN", <<")">>)>>)
    /\ (program = "IntCall" /\ stage \notin {"source", "tokens"}) =>
            stage = "parse failed" /\ raised = "SyntaxError" /\ ast = <<>>

C27_Witness ==
    /\ program = "IntCall" /\ stage = "parse failed"
    /\ token_list[3] = Token("IN", Words["IN"]) /\ token_list[4] = Token("ID", <<"t">>)

\* the shell has run the text name: it ran without error, parsed to two top-level
\* statements, the second of them print(...), and printed lines
TwoStatements(name, header, lines) ==
    program = name =>
        /\ raised = "ok" /\ status = "exit0"
        /\ Len(ast) = 2
        /\ ast[1].type = header
        /\ ast[2].type = "PrintNode"
        /\ output = lines

\* C28: a block body holds exactly one statement.  When a header is followed by
\* two indented statements the first is the body and the second is the next
\* top-level statement, run once whatever the header decides: after `if False:`
\* only the second prints; after an elif or else branch that is not taken the
\* second still prints; after `for i in range(2):` it prints once, after the
\* loop; after `while False:` it prints; after `function f():` it prints although
\* f is never called.
C28_OneStatementBodies ==
    /\ TwoStatements("IfTwo", "IfNode", <<"2">>)
    /\ TwoStatements("ElifTwo", "IfNode", <<"1", "4">>)
    /\ TwoStatements("ElseTwo", "IfNode", <<"1", "6">>)
    /\ TwoStatements("ForTwo", "ForNode", <<"0", "1", "9">>)
    /\ TwoStatements("WhileTwo", "WhileNode", <<"2">>)
    /\ TwoStatements("DefTwo", "FunctionDefNode", <<"2">>)
    /\ program = "IfTwo" => Len(ast[1].then_body) = 1
    /\ program = "ElifTwo" => Len(ast[1].elif_parts[1][2]) = 1
    /\ program = "ElseTwo" => Len(ast[1].else_body) = 1
    /\ program \in {"ForTwo", "WhileTwo"} => Len(ast[1].body) = 1
    /\ program = "DefTwo" => Len(functions["f"].body) = 1

C28_Witness ==
    /\ program = "DefTwo" /\ stage = "interpreted"
    /\ "f" \in DOMAIN functions /\ output = <<"2">> /\ console = <<"2">>

\* C29: a return executed while no call frame is active is not checked.  The
\* ReturnValue carrier leaves interpret (it is not the interpreter's
\* RuntimeError), the statements after it are not run, what ran before it stays
\* (the line printed, x = 2, the function f), and the shell prints
\* "Runtime Error in <file>: 5" and exits with code 1.
C29_TopLevelReturn ==
    /\ program \in {"TopReturn", "ReturnSecondLine"} =>
            /\ raised = "ReturnValue" /\ stage = "interpreted"
            /\ local_vars = <<>>
            /\ status = "exit1"
            /\ console[Len(console)]
                 = "Runtime Error in " \o (IF mode = "file" THEN FileName ELSE "<repl>")
                     \o ": 5"
    /\ program = "ReturnSecondLine" =>
            /\ Len(ast) = 5 /\ ast[4].type = "ReturnNode" /\ ast[5].type = "PrintNode"
            /\ output = <<"1">>
            /\ global_vars["x"] = Int_(2)
            /\ "f" \in DOMAIN functions /\ Len(functions["f"].body) = 1

C29_Witness ==
    /\ program = "ReturnSecondLine" /\ mode = "file" /\ status = "exit1"
    /\ raised = "ReturnValue" /\ output = <<"1">>
    /\ console = <<"1", "Runtime Error in program.qor: 5">>
====
